---- MODULE Spec2Model ----
(***************************************************************************)
(* Streaming response decoders of the anthropic-sdk crate:                 *)
(*   AnthropicClient::stream_message   (src/src/anthropic_client.rs)       *)
(*   Request::execute, stream = true   (src/src/lib.rs)                    *)
(*   GeminiClient::stream_message      (src/src/gemini_client.rs)          *)
(*                                                                         *)
(* The response body is a sequence of wire tokens.  A token is a run of    *)
(* bytes that every operation of the decoders treats as a unit: a line     *)
(* break, an `event: <name>` line, the `data: ` prefix, the `[DONE]`       *)
(* literal, one JSON value, or one byte of a two-byte UTF-8 character.     *)
(* The transport hands the body over in chunks cut at arbitrary token      *)
(* boundaries.                                                             *)
(***************************************************************************)
EXTENDS Integers, Sequences, FiniteSets, TLC

\* Largest number of frames (event stream) or objects (object stream) in a body.
MaxFrames == 2

\* Largest number of buffered calls made one after the other on one client.
MaxCalls == 2
\* The longest sequence of update_config calls on a client.
MaxUpdates == 2

-----------------------------------------------------------------------------
(* Wire tokens of the event-stream provider *)

NL == "\n"
EvMessageStart == "event: message_start"
EvContentBlockStart == "event: content_block_start"
EvPing == "event: ping"
EvContentBlockDelta == "event: content_block_delta"
EvContentBlockStop == "event: content_block_stop"
EvMessageDelta == "event: message_delta"
EvMessageStop == "event: message_stop"
EvError == "event: error"
DataPrefix == "data: "
DoneLiteral == "[DONE]"
\* The two bytes of one two-byte UTF-8 character (0xC3 0xA9).
Utf8Lead == "0xC3"
Utf8Cont == "0xA9"

\* JSON values that occur as `data:` payloads.
JDeltaHi == "{\"type\":\"content_block_delta\",\"delta\":{\"text\":\"Hi\"}}"
JDeltaYo == "{\"type\":\"content_block_delta\",\"delta\":{\"text\":\"Yo\"}}"
JDeltaEmptyText == "{\"type\":\"content_block_delta\",\"delta\":{\"text\":\"\"}}"
JMessageDelta == "{\"type\":\"message_delta\",\"delta\":{\"stop_reason\":\"end_turn\"}}"
JBlockStop == "{\"type\":\"content_block_stop\",\"index\":0}"
JEmptyObject == "{}"
JError == "{\"type\":\"error\",\"error\":{\"type\":\"overloaded_error\",\"message\":\"x\"}}"

JsonTokens ==
    {JDeltaHi, JDeltaYo, JDeltaEmptyText, JMessageDelta, JBlockStop, JEmptyObject, JError}

\* The members of a JSON value that the serde structs of types.rs read.
\* hasType: a string member "type"; delta: "none" (no member), "notext" (an
\* object without "text") or "text"; text: the string of delta.text as a
\* fragment (the empty string is <<>>); hasError: a member "error" that is an
\* object with string members "type" and "message".
JsonMembers(tok) ==
    CASE tok = JDeltaHi ->
           [hasType |-> TRUE, type |-> "content_block_delta", delta |-> "text",
            text |-> <<"Hi">>, hasError |-> FALSE, errType |-> "", errMessage |-> ""]
      [] tok = JDeltaYo ->
           [hasType |-> TRUE, type |-> "content_block_delta", delta |-> "text",
            text |-> <<"Yo">>, hasError |-> FALSE, errType |-> "", errMessage |-> ""]
      [] tok = JDeltaEmptyText ->
           [hasType |-> TRUE, type |-> "content_block_delta", delta |-> "text",
            text |-> <<>>, hasError |-> FALSE, errType |-> "", errMessage |-> ""]
      [] tok = JMessageDelta ->
           [hasType |-> TRUE, type |-> "message_delta", delta |-> "notext",
            text |-> <<>>, hasError |-> FALSE, errType |-> "", errMessage |-> ""]
      [] tok = JBlockStop ->
           [hasType |-> TRUE, type |-> "content_block_stop", delta |-> "none",
            text |-> <<>>, hasError |-> FALSE, errType |-> "", errMessage |-> ""]
      [] tok = JError ->
           [hasType |-> TRUE, type |-> "error", delta |-> "none",
            text |-> <<>>, hasError |-> TRUE, errType |-> "overloaded_error",
            errMessage |-> "x"]
      [] OTHER ->
           [hasType |-> FALSE, type |-> "", delta |-> "none",
            text |-> <<>>, hasError |-> FALSE, errType |-> "", errMessage |-> ""]

-----------------------------------------------------------------------------
(* String operations of the Rust standard library, on token sequences *)

IsWhitespace(tok) == tok = NL

\* str::starts_with for a one-token pattern
StartsWith(s, pat) == Len(s) > 0 /\ Head(s) = pat

\* str::trim_start_matches(pat): removes every leading repetition of pat
RECURSIVE trim_start_matches(_, _)
trim_start_matches(s, pat) ==
    IF StartsWith(s, pat) THEN trim_start_matches(Tail(s), pat) ELSE s

\* str::trim_start: removes leading whitespace
RECURSIVE trim_start(_)
trim_start(s) ==
    IF Len(s) > 0 /\ IsWhitespace(Head(s)) THEN trim_start(Tail(s)) ELSE s

\* str::trim_end
RECURSIVE trim_end(_)
trim_end(s) ==
    IF Len(s) > 0 /\ IsWhitespace(s[Len(s)]) THEN trim_end(SubSeq(s, 1, Len(s) - 1)) ELSE s

\* str::trim
trim(s) == trim_end(trim_start(s))

\* s.trim_start().strip_prefix("data: ").unwrap_or(&s): the fallback is the
\* string before trim_start.
StripDataPrefix(s) ==
    LET t == trim_start(s)
    IN  IF StartsWith(t, DataPrefix) THEN Tail(t) ELSE s

\* buffer.find("\n\n"): the position of the first double line break, 0 for None
\* (positions count from 1).
find(buf) ==
    IF \E i \in 1..(Len(buf) - 1) : buf[i] = NL /\ buf[i + 1] = NL
    THEN CHOOSE i \in 1..(Len(buf) - 1) :
            /\ buf[i] = NL /\ buf[i + 1] = NL
            /\ \A j \in 1..(i - 1) : ~(buf[j] = NL /\ buf[j + 1] = NL)
    ELSE 0

\* std::str::from_utf8 succeeds: no character is cut by the chunk boundary.
ValidUtf8(bytes) ==
    \A i \in 1..Len(bytes) :
        /\ bytes[i] = Utf8Lead => (i < Len(bytes) /\ bytes[i + 1] = Utf8Cont)
        /\ bytes[i] = Utf8Cont => (i > 1 /\ bytes[i - 1] = Utf8Lead)

-----------------------------------------------------------------------------
(* serde_json::from_str for the structs of types.rs *)

\* serde_json::from_str accepts one JSON value with whitespace around it.
IsOneJsonValue(s) == Len(trim(s)) = 1 /\ trim(s)[1] \in JsonTokens

\* from_str::<AnthropicChatCompletionChunk>: "type" is the only required
\* member; unknown members are ignored.
ParsesAsChunk(s) == IsOneJsonValue(s) /\ JsonMembers(trim(s)[1]).hasType

\* from_str::<AnthropicErrorMessage>: "type" and "error" {type, message} are required.
ParsesAsErrorMessage(s) ==
    /\ IsOneJsonValue(s)
    /\ JsonMembers(trim(s)[1]).hasType
    /\ JsonMembers(trim(s)[1]).hasError

-----------------------------------------------------------------------------
(* Frame classification *)

\* The chain of trim_start_matches calls over the event names.
StripEventNames(chunk) ==
    trim_start_matches(
      trim_start_matches(
        trim_start_matches(
          trim_start_matches(
            trim_start_matches(
              trim_start_matches(
                trim_start_matches(chunk, EvMessageStart),
                EvContentBlockStart),
              EvPing),
            EvContentBlockDelta),
          EvContentBlockStop),
        EvMessageDelta),
      EvMessageStop)

\* anyhow!("{}: {}", error_type, message)
FormatError(errorType, message) == <<errorType, ": ", message>>

Ok(v) == [ok |-> TRUE, val |-> v]
Err(m) == [ok |-> FALSE, val |-> m]

\* process_stream_chunk with the error envelope logged instead of returned.
process_stream_chunk_SwallowsError(chunk) ==
    LET processed_chunk == StripEventNames(chunk)
        cleaned_string == StripDataPrefix(processed_chunk)
    IN  IF ParsesAsChunk(cleaned_string)
        THEN LET d == JsonMembers(trim(cleaned_string)[1])
             IN  IF d.delta = "text" THEN Ok(d.text) ELSE Ok(<<>>)
        ELSE Ok(<<>>)

\* process_stream_chunk returning the cleaned payload instead of delta.text.
process_stream_chunk_ReturnsPayload(chunk) ==
    LET processed_chunk == StripEventNames(chunk)
        cleaned_string == StripDataPrefix(processed_chunk)
    IN  IF ParsesAsChunk(cleaned_string)
        THEN LET d == JsonMembers(trim(cleaned_string)[1])
             IN  IF d.delta = "text" THEN Ok(cleaned_string) ELSE Ok(<<>>)
        ELSE LET processed_chunk2 == trim_start_matches(cleaned_string, EvError)
                 cleaned_string2 == StripDataPrefix(processed_chunk2)
             IN  IF ParsesAsErrorMessage(cleaned_string2)
                 THEN LET e == JsonMembers(trim(cleaned_string2)[1])
                      IN  Err(FormatError(e.errType, e.errMessage))
                 ELSE Ok(<<>>)

\* process_stream_chunk failing on a payload that parses as neither struct.
process_stream_chunk_FailsOnUnparsed(chunk) ==
    LET processed_chunk == StripEventNames(chunk)
        cleaned_string == StripDataPrefix(processed_chunk)
    IN  IF ParsesAsChunk(cleaned_string)
        THEN LET d == JsonMembers(trim(cleaned_string)[1])
             IN  IF d.delta = "text" THEN Ok(d.text) ELSE Ok(<<>>)
        ELSE LET processed_chunk2 == trim_start_matches(cleaned_string, EvError)
                 cleaned_string2 == StripDataPrefix(processed_chunk2)
             IN  IF ParsesAsErrorMessage(cleaned_string2)
                 THEN LET e == JsonMembers(trim(cleaned_string2)[1])
                      IN  Err(FormatError(e.errType, e.errMessage))
                 ELSE Err(<<"Couldn't parse AnthropicChatCompletionChunk or AnthropicErrorMessage">>)

\* AnthropicClient::process_stream_chunk: Ok(text), Ok(<<>>) or Err(message).
process_stream_chunk(chunk) ==
    LET processed_chunk == StripEventNames(chunk)
        cleaned_string == StripDataPrefix(processed_chunk)
    IN  IF ParsesAsChunk(cleaned_string)
        THEN LET d == JsonMembers(trim(cleaned_string)[1])
             IN  IF d.delta = "text" THEN Ok(d.text) ELSE Ok(<<>>)
        ELSE LET processed_chunk2 == trim_start_matches(cleaned_string, EvError)
                 cleaned_string2 == StripDataPrefix(processed_chunk2)
             IN  IF ParsesAsErrorMessage(cleaned_string2)
                 THEN LET e == JsonMembers(trim(cleaned_string2)[1])
                      IN  Err(FormatError(e.errType, e.errMessage))
                 ELSE Ok(<<>>)


\* The frame handling inlined in Request::execute: the sink is invoked for
\* every Some(text), the empty text included.
execute_frame(chunk) ==
    LET processed_chunk == StripEventNames(chunk)
        cleaned_string == StripDataPrefix(processed_chunk)
    IN  IF ParsesAsChunk(cleaned_string)
        THEN LET d == JsonMembers(trim(cleaned_string)[1])
             IN  IF d.delta = "text"
                 THEN [kind |-> "callback", val |-> d.text]
                 ELSE [kind |-> "none", val |-> <<>>]
        ELSE LET processed_chunk2 == trim_start_matches(cleaned_string, EvError)
                 cleaned_string2 == StripDataPrefix(processed_chunk2)
             IN  IF ParsesAsErrorMessage(cleaned_string2)
                 THEN LET e == JsonMembers(trim(cleaned_string2)[1])
                      IN  [kind |-> "err", val |-> FormatError(e.errType, e.errMessage)]
                 ELSE [kind |-> "none", val |-> <<>>]

-----------------------------------------------------------------------------
(* Wire tokens of the object-stream provider *)

\* {"candidates":[{"content":{"parts":[
GOpen == "{\"candidates\":[{\"content\":{\"parts\":["
\* ]}},{"content":{"parts":[     (ends one candidate, starts the next)
GNext == "]}},{\"content\":{\"parts\":["
\* ]}}]}
GClose == "]}}]}"
PTextA == "{\"text\":\"a\"}"
PTextB == "{\"text\":\"b\"}"
PTextEmpty == "{\"text\":\"\"}"
PCall == "{\"function_call\":{\"name\":\"f\",\"args\":{}}}"
PResp == "{\"function_response\":{\"name\":\"f\",\"response\":{}}}"
\* serde_json::to_string(&function_call) of PCall
CallSerialized == "{\"name\":\"f\",\"args\":{}}"

PartTokens == {PTextA, PTextB, PTextEmpty, PCall, PResp}

\* The GeminiPart variant a part deserializes to, and its payload.
GeminiPartOf(tok) ==
    CASE tok = PTextA -> [variant |-> "Text", val |-> <<"a">>]
      [] tok = PTextB -> [variant |-> "Text", val |-> <<"b">>]
      [] tok = PTextEmpty -> [variant |-> "Text", val |-> <<>>]
      [] tok = PCall -> [variant |-> "FunctionCall", val |-> <<CallSerialized>>]
      [] OTHER -> [variant |-> "FunctionResponse", val |-> <<>>]

\* from_str::<GeminiResponse> succeeds: one complete object whose candidates
\* each hold a list of parts.
ParsesAsGeminiResponse(s) ==
    LET t == trim(s)
    IN  /\ Len(t) >= 2
        /\ t[1] = GOpen
        /\ t[Len(t)] = GClose
        /\ \A i \in 2..(Len(t) - 1) : t[i] \in PartTokens \cup {GNext}

\* The parts of a parsed response in the order of the two nested for loops
\* (candidates, then the parts of each), each with its candidate and part index.
RECURSIVE PartsInOrder(_, _, _)
PartsInOrder(body, cand, part) ==
    IF body = <<>> THEN <<>>
    ELSE IF Head(body) = GNext THEN PartsInOrder(Tail(body), cand + 1, 1)
    ELSE <<[cand |-> cand, part |-> part, tok |-> Head(body)]>>
             \o PartsInOrder(Tail(body), cand, part + 1)

\* The loops visiting the parts back to front.
GeminiParts_Reversed(s) ==
    LET t == trim(s)
        ps == PartsInOrder(SubSeq(t, 2, Len(t) - 1), 1, 1)
    IN  [i \in 1..Len(ps) |-> ps[Len(ps) + 1 - i]]

GeminiParts(s) ==
    LET t == trim(s) IN PartsInOrder(SubSeq(t, 2, Len(t) - 1), 1, 1)

-----------------------------------------------------------------------------
(* Response bodies *)

FrameHi == <<EvContentBlockDelta, NL, DataPrefix, JDeltaHi>>
FrameYo == <<DataPrefix, JDeltaYo>>
FrameEmptyText == <<EvContentBlockDelta, NL, DataPrefix, JDeltaEmptyText>>
FrameMessageDelta == <<EvMessageDelta, NL, DataPrefix, JMessageDelta>>
FrameBlockStop == <<EvContentBlockStop, NL, DataPrefix, JBlockStop>>
FramePing == <<EvPing, NL, DataPrefix, JEmptyObject>>
FrameEmpty == <<>>
FrameUtf8 == <<Utf8Lead, Utf8Cont>>
FrameDone == <<DataPrefix, DoneLiteral>>
FrameError == <<EvError, NL, DataPrefix, JError>>
FrameErrorNoEvent == <<DataPrefix, JError>>
FrameErrorPing == <<EvPing, NL, DataPrefix, JError>>

EventFrames ==
    {FrameHi, FrameYo, FrameEmptyText, FrameMessageDelta, FrameBlockStop, FramePing,
     FrameEmpty, FrameUtf8, FrameDone, FrameError, FrameErrorNoEvent, FrameErrorPing}

ObjectText == <<GOpen, PTextA, GClose>>
ObjectTwoCandidates == <<GOpen, PTextA, PCall, GNext, PTextB, GClose>>
ObjectResponse == <<GOpen, PResp, PTextB, GClose>>
ObjectEmptyText == <<GOpen, PTextEmpty, PTextA, GClose>>
ObjectBlank == <<NL>>

GeminiObjects ==
    {ObjectText, ObjectTwoCandidates, ObjectResponse, ObjectEmptyText, ObjectBlank}

SeqsUpTo(S, n) == UNION {[1..m -> S] : m \in 0..n}

\* The event-stream body of the frames fs: each frame is followed by a blank
\* line, the last one only when the body is terminated.
RECURSIVE EventBody(_, _)
EventBody(fs, terminated) ==
    IF fs = <<>> THEN <<>>
    ELSE IF Len(fs) = 1 /\ ~terminated THEN Head(fs)
    ELSE Head(fs) \o <<NL, NL>> \o EventBody(Tail(fs), terminated)

RECURSIVE ObjectBody(_)
ObjectBody(os) == IF os = <<>> THEN <<>> ELSE Head(os) \o ObjectBody(Tail(os))

-----------------------------------------------------------------------------
(* Configuration and request builders *)

\* The options of LLMConfig (traits.rs) that are Option<_> or, for `model`, a
\* plain String; the builder of lib.rs has a setter for each of them.
Options ==
    {"model", "temperature", "max_tokens", "top_p", "top_k", "stop_sequences",
     "system_prompt", "tools"}

\* The value a set option holds in the configurations of the model.
SampleValue(opt) ==
    CASE opt = "model" -> "\"m\""
      [] opt = "temperature" -> "0.7"
      [] opt = "max_tokens" -> "4000"
      [] opt = "top_p" -> "0.9"
      [] opt = "top_k" -> "40"
      [] opt = "stop_sequences" -> "[\"END\"]"
      [] opt = "system_prompt" -> "\"be brief\""
      [] OTHER -> "[{\"name\":\"f\"}]"

UserMessage == "[{\"role\":\"user\",\"content\":\"hello\"}]"
GeminiContents == "[{\"parts\":[{\"text\":\"hello\"}],\"role\":\"user\"}]"

\* json!([{"type": "text", "text": system, "cache_control": {"type": "ephemeral"}}])
SystemBlock(text) == <<"[{\"type\":\"text\",\"text\":", text, ",\"cache_control\":{\"type\":\"ephemeral\"}}]">>

\* A configuration: the set of options that are set, and the streaming flag.
Config(set, streaming) == [set |-> set, streaming |-> streaming]

\* LLMClientType::new: model and max_tokens set, tools as given, the rest None.
NewConfig(streaming, withTools) ==
    Config({"model", "max_tokens"} \cup (IF withTools THEN {"tools"} ELSE {}), streaming)

AnthropicMessagesUrl == "https://api.anthropic.com/v1/messages"
GeminiStreamUrl == "https://generativelanguage.googleapis.com/v1beta/models/m:streamGenerateContent"
GeminiBufferedUrl == "https://generativelanguage.googleapis.com/v1beta/models/m:generateContent"

\* The key under which the Anthropic builders send an option.
AnthropicKey(opt) == IF opt = "system_prompt" THEN "system" ELSE opt

\* The value the Anthropic builders send for an option holding v.
AnthropicValue(opt, v) == IF opt = "system_prompt" THEN SystemBlock(v) ELSE <<v>>

\* AnthropicClient::build_request: the body map.  Keys that are not inserted
\* are not in the domain of the map.
AnthropicBody(cfg) ==
    LET sent == {"model"} \cup (cfg.set \ {"model"})
        keys == {AnthropicKey(o) : o \in sent} \cup {"messages"}
    IN  [k \in keys |->
            IF k = "messages" THEN <<UserMessage>>
            ELSE LET o == CHOOSE o \in sent : AnthropicKey(o) = k
                 IN  AnthropicValue(o, SampleValue(o))]

\* AnthropicClient::send_message / send_message_raw: the request sent.
AnthropicSendRequest(cfg) == [url |-> AnthropicMessagesUrl, body |-> AnthropicBody(cfg)]

\* AnthropicClient::stream_message: body_map.insert("stream", json!(true)).
AnthropicStreamRequest(cfg) ==
    LET b == AnthropicBody(cfg)
    IN  [url |-> AnthropicMessagesUrl,
         body |-> [k \in DOMAIN b \cup {"stream"} |-> IF k = "stream" THEN <<"true">> ELSE b[k]]]

\* The key of GeminiRequest / GeminiGenerationConfig an option is copied to;
\* "" for the options GeminiClient::build_request does not read.
GeminiKey(opt) ==
    CASE opt = "temperature" -> "generation_config.temperature"
      [] opt = "top_p" -> "generation_config.top_p"
      [] opt = "top_k" -> "generation_config.top_k"
      [] opt = "max_tokens" -> "generation_config.max_output_tokens"
      [] opt = "stop_sequences" -> "generation_config.stop_sequences"
      [] OTHER -> ""

GeminiGenerationOptions ==
    {"temperature", "top_p", "top_k", "max_tokens", "stop_sequences"}

\* GeminiClient::build_request: the serialized GeminiRequest.  No field has
\* skip_serializing_if, so a None is serialized as null; tools is the tools
\* field of the client (empty after with_config), safety_settings is None.
GeminiBody(cfg) ==
    LET keys == {GeminiKey(o) : o \in GeminiGenerationOptions}
                    \cup {"contents", "tools", "safety_settings"}
    IN  [k \in keys |->
            CASE k = "contents" -> <<GeminiContents>>
              [] k = "tools" -> <<"[]">>
              [] k = "safety_settings" -> <<"null">>
              [] OTHER ->
                   LET o == CHOOSE o \in GeminiGenerationOptions : GeminiKey(o) = k
                   IN  IF o \in cfg.set THEN <<SampleValue(o)>> ELSE <<"null">>]

\* GeminiClient::build_request: the url is chosen by config.streaming, for
\* every kind of call.
GeminiRequestOf(cfg) ==
    [url |-> IF cfg.streaming THEN GeminiStreamUrl ELSE GeminiBufferedUrl,
     body |-> GeminiBody(cfg)]

\* The value Client::new (lib.rs) gives a field whose setter was not called.
ClientDefault(opt) ==
    CASE opt = "model" -> "\"\""
      [] opt = "max_tokens" -> "1024"
      [] opt = "temperature" -> "0.0"
      [] opt = "system_prompt" -> "\"\""
      [] OTHER -> ""

\* The fields Client::build inserts unconditionally.
ClientAlwaysSent == {"model", "max_tokens", "temperature", "system_prompt"}

\* Client::build (lib.rs): the body map; cfg.streaming is the stream field.
ClientBody(cfg) ==
    LET sent == ClientAlwaysSent \cup cfg.set
        keys == {AnthropicKey(o) : o \in sent} \cup {"messages", "stream"}
    IN  [k \in keys |->
            CASE k = "messages" -> <<UserMessage>>
              [] k = "stream" -> IF cfg.streaming THEN <<"true">> ELSE <<"false">>
              [] OTHER ->
                   LET o == CHOOSE o \in sent : AnthropicKey(o) = k
                   IN  AnthropicValue(o, IF o \in cfg.set THEN SampleValue(o)
                                                          ELSE ClientDefault(o))]

ClientRequest(cfg) == [url |-> AnthropicMessagesUrl, body |-> ClientBody(cfg)]

-----------------------------------------------------------------------------
(* Responses to buffered calls, error responses *)

\* HTTP statuses of the responses of the model: 200 OK, 201 Created (2xx but
\* not OK), 400, 401, 429, 500.
Statuses == {200, 201, 400, 401, 429, 500}

\* An AnthropicResponse whose first content item is the text "Hi".
ARespText == "{\"id\":\"1\",\"model\":\"m\",\"stop_reason\":\"end_turn\",\"role\":\"assistant\",\"content\":[{\"type\":\"text\",\"text\":\"Hi\"}],\"usage\":{\"input_tokens\":1,\"output_tokens\":1}}"
\* An AnthropicResponse whose first content item is a tool_use item.
ARespToolUse == "{\"id\":\"1\",\"model\":\"m\",\"stop_reason\":\"tool_use\",\"role\":\"assistant\",\"content\":[{\"type\":\"tool_use\",\"id\":\"t\",\"name\":\"f\",\"input\":{}}],\"usage\":{\"input_tokens\":1,\"output_tokens\":1}}"
\* An AnthropicResponse whose content is a tool_use item, then the text "Hi".
ARespToolThenText == "{\"id\":\"1\",\"model\":\"m\",\"stop_reason\":\"tool_use\",\"role\":\"assistant\",\"content\":[{\"type\":\"tool_use\",\"id\":\"t\",\"name\":\"f\",\"input\":{}},{\"type\":\"text\",\"text\":\"Hi\"}],\"usage\":{\"input_tokens\":1,\"output_tokens\":1}}"
\* A body that is not JSON.
BodyPlain == "upstream timeout"
\* {"error": {code, message, status}}: the error envelope of the object-stream provider.
GeminiErrorBody == "{\"error\":{\"code\":429,\"message\":\"quota\",\"status\":\"RESOURCE_EXHAUSTED\"}}"
\* A GeminiResponse whose only part is a function call.
ObjectCallOnly == <<GOpen, PCall, GClose>>

ErrorBodies == {<<JError>>, <<GeminiErrorBody>>, <<BodyPlain>>}

JsonDecodeError == <<"error decoding response body">>
SendError == <<"Failed to send request">>

\* serde_json::from_str::<GeminiError> succeeds.
ParsesAsGeminiError(body) == body = <<GeminiErrorBody>>

\* The body is one JSON value (response.json::<Value>() succeeds).
IsJsonBody(body) ==
    \/ body \in {<<ARespText>>, <<ARespToolUse>>, <<ARespToolThenText>>,
                 <<GeminiErrorBody>>}
    \/ IsOneJsonValue(body)
    \/ ParsesAsGeminiResponse(body)

\* Display of a StatusCode.
StatusText(st) ==
    CASE st = 200 -> "200 OK"
      [] st = 201 -> "201 Created"
      [] st = 400 -> "400 Bad Request"
      [] st = 401 -> "401 Unauthorized"
      [] st = 429 -> "429 Too Many Requests"
      [] OTHER -> "500 Internal Server Error"

\* The arms of `match response.status()` other than StatusCode::OK.
AnthropicStatusError(prefix, st, body) == <<prefix, StatusText(st), "): ">> \o body

GeminiStatusError(body) ==
    IF ParsesAsGeminiError(body)
    THEN <<"API Error (", "429", "): ", "quota">>
    ELSE <<"Failed to parse error response">>

ExecuteStatusError(st, body) ==
    CASE st = 400 -> <<"Bad request. Check your request parameters. ">> \o body
      [] st = 401 -> <<"Unauthorized. Check your authorization key.">>
      [] st = 429 -> <<"Too many Requests. You have been rate limited.">>
      [] OTHER -> <<"Unexpected status code: ">> \o body

-----------------------------------------------------------------------------
(* The stream drivers *)

VARIABLES
    driver,     \* "stream_message", "execute" or "gemini"
    verbose,    \* the verbose flag of the client / request
    payload,    \* the whole response body
    rest,       \* the part of the body the transport has not delivered yet
    buffer,     \* the String buffer of the event-stream drivers
    parts,      \* gemini: the parts of the current chunk not yet visited
    pc,         \* "await" (response.chunk().await), "dispatch", "callback", "done"
    sunk,       \* the sink invocations so far, in order
    outcome,    \* the result of the call
    frameNo,    \* frames drained (event stream) / chunks parsed (gemini) so far
    call,       \* "stream", "send" or "send_raw"
    config,     \* the configuration of the client
    request,    \* the request sent for the call: url and body
    status,     \* the HTTP status of the response
    earlier,    \* the buffered calls made on the client before this one
    callsLeft,  \* the calls the caller makes on the client after this one
    streams,    \* two stream calls in flight at once: the locals of each
    client,     \* a client object: the fields of AnthropicClient / GeminiClient
    caller      \* its owner: the configs handed to it, the last request it issued

vars ==
    <<driver, verbose, payload, rest, buffer, parts, pc, sunk, outcome, frameNo,
      call, config, request, status, earlier, callsLeft, streams, client, caller>>

\* What a running call does not change: the client, the response status, the
\* locals of other calls.
callVars == <<call, config, request, status, earlier, callsLeft, streams, client, caller>>

Pending == [kind |-> "Pending", msg |-> <<>>]
Success == [kind |-> "Ok", msg |-> <<>>]
Failure(m) == [kind |-> "Err", msg |-> m]
Panic(m) == [kind |-> "Panic", msg |-> m]

Utf8Error == <<"Utf8Error">>
TransportError == <<"reqwest::Error">>
GeminiUtf8Error == <<"Failed to decode chunk as UTF-8">>
GeminiParseError == <<"Failed to parse chunk as GeminiResponse">>

EventDrivers == {"stream_message", "execute"}

\* callback(fragment): one sink invocation, for frame frameNo' of the stream.
Invoke(log, fragment, frame, cand, part) ==
    Append(log, [frag |-> fragment, frame |-> frame, cand |-> cand, part |-> part])

NoRequest == [url |-> "", body |-> <<>>]
\* No client object has been constructed; its owner has seen nothing.
NoClient == [variant |-> "none"]
NoIssued == [call |-> "none"]
NoCaller == [supplied |-> <<>>, issued |-> NoIssued]
BufferedCalls == {"send", "send_raw"}

\* The configurations a client of the driver can hold: `model` of LLMConfig is
\* a String and always set; every field of the builder of lib.rs has a default.
Configs(d) ==
    {Config(set, streaming) :
        set \in {o \in SUBSET Options : d = "execute" \/ "model" \in o},
        streaming \in BOOLEAN}

\* The calls of a client: LLMClient has the three; Request::execute streams
\* exactly when the stream field of the builder is set.
Calls(d, cfg) ==
    IF d = "execute" THEN {IF cfg.streaming THEN "stream" ELSE "send"}
    ELSE {"stream", "send", "send_raw"}

\* The bodies of the 200 responses to a buffered call.
SendBodies(d) ==
    IF d = "gemini"
    THEN {ObjectText, ObjectResponse, ObjectCallOnly, <<BodyPlain>>}
    ELSE {<<ARespText>>, <<ARespToolUse>>, <<ARespToolThenText>>, <<BodyPlain>>}

\* The bodies of stream responses.
StreamBodies(d) ==
    IF d = "gemini"
    THEN {ObjectBody(os) : os \in SeqsUpTo(GeminiObjects, MaxFrames)}
    ELSE {EventBody(fs, terminated) :
            fs \in SeqsUpTo(EventFrames, MaxFrames), terminated \in BOOLEAN}

\* The responses a call can get: status and body.
Responses(d, c) ==
    {[status |-> st, body |-> b] : st \in Statuses \ {200}, b \in ErrorBodies}
        \cup {[status |-> 200, body |-> b] :
                  b \in IF c = "stream" THEN StreamBodies(d) ELSE SendBodies(d)}

\* The body of the 200 response that answers the calls made under every
\* configuration.
PlainBody(d, c) ==
    IF c = "stream" THEN <<>> ELSE IF d = "gemini" THEN ObjectText ELSE <<ARespText>>

\* A call on a client is about to build its request.  The calls of the
\* model: under the configuration of LLMClientType::new, streaming or not,
\* every call with every response (stream calls over every stream body only
\* with streaming = true); under every configuration, every call, answered
\* 200 with one plain body.
Init ==
    /\ driver \in EventDrivers \cup {"gemini"}
    /\ verbose \in BOOLEAN
    /\ driver = "gemini" => verbose = FALSE
    /\ config \in Configs(driver)
    /\ call \in Calls(driver, config)
    /\ \E r \in Responses(driver, call) : status = r.status /\ payload = r.body
    /\ callsLeft \in 0..(MaxCalls - 1)
    /\ callsLeft > 0 => (call \in BufferedCalls /\ driver # "execute")
    /\ \/ config = NewConfig(TRUE, FALSE)
       \/ config = NewConfig(FALSE, FALSE) /\ call # "stream"
       \/ status = 200 /\ payload = PlainBody(driver, call) /\ callsLeft = 0
    /\ request = NoRequest
    /\ earlier = <<>>
    /\ streams = <<>>
    /\ client = NoClient
    /\ caller = NoCaller
    /\ rest = payload
    /\ buffer = <<>>
    /\ parts = <<>>
    /\ pc = "build"
    /\ sunk = <<>>
    /\ outcome = Pending
    /\ frameNo = 0

\* The request a call sends.
RequestOf(d, c, cfg) ==
    CASE d = "gemini" -> GeminiRequestOf(cfg)
      [] d = "execute" -> ClientRequest(cfg)
      [] d = "stream_message" /\ c = "stream" -> AnthropicStreamRequest(cfg)
      [] OTHER -> AnthropicSendRequest(cfg)

\* build_request, then request_builder.send().await yields the response.
SendRequest ==
    /\ pc = "build"
    /\ request' = RequestOf(driver, call, config)
    /\ pc' = "status"
    /\ UNCHANGED <<driver, verbose, payload, rest, buffer, parts, sunk, outcome,
                   frameNo, call, config, status, earlier, callsLeft, streams,
                   client, caller>>

\* request_builder.send().await fails: .context("Failed to send request")?
SendFailure ==
    /\ pc = "build"
    /\ request' = RequestOf(driver, call, config)
    /\ pc' = "done"
    /\ outcome' = Failure(SendError)
    /\ UNCHANGED <<driver, verbose, payload, rest, buffer, parts, sunk,
                   frameNo, call, config, status, earlier, callsLeft, streams,
                   client, caller>>

\* The failure of the arm of `match response.status()` for a status other
\* than StatusCode::OK.
StatusError(d, c, st, body) ==
    CASE d = "gemini" -> GeminiStatusError(body)
      [] d = "execute" -> ExecuteStatusError(st, body)
      [] d = "stream_message" /\ c = "stream" ->
           AnthropicStatusError("Stream request failed (", st, body)
      [] OTHER -> AnthropicStatusError("Request failed (", st, body)

\* match response.status() of a stream call: the OK arm enters the read
\* loop, every other arm reads the body and fails the call.
StreamStatus ==
    /\ pc = "status" /\ call = "stream"
    /\ IF status = 200
       THEN /\ pc' = "await"
            /\ UNCHANGED <<rest, outcome>>
       ELSE /\ pc' = "done"
            /\ rest' = <<>>
            /\ outcome' = Failure(StatusError(driver, call, status, payload))
    /\ UNCHANGED <<driver, verbose, payload, buffer, parts, sunk, frameNo, callVars>>

\* GeminiClient::extract_text_from_candidate of the first candidate.
FirstCandidateText(body) ==
    LET ps == SelectSeq(GeminiParts(body), LAMBDA p :
                  p.cand = 1 /\ GeminiPartOf(p.tok).variant = "Text")
    IN  IF ps = <<>> THEN <<>> ELSE GeminiPartOf(ps[1].tok).val

\* response.json::<AnthropicResponse>() succeeds.
ParsesAsAnthropicResponse(body) ==
    body \in {<<ARespText>>, <<ARespToolUse>>, <<ARespToolThenText>>}

\* The content items of an AnthropicResponse, as ContentItem values.
AnthropicContent(body) ==
    LET Text == [variant |-> "Text", text |-> <<"Hi">>]
        ToolUse == [variant |-> "ToolUse", text |-> <<>>]
    IN  CASE body = <<ARespText>> -> <<Text>>
          [] body = <<ARespToolUse>> -> <<ToolUse>>
          [] body = <<ARespToolThenText>> -> <<ToolUse, Text>>
          [] OTHER -> <<>>

\* The OK arm of AnthropicClient::send_message.
AnthropicSendResult(body) ==
    IF ~ParsesAsAnthropicResponse(body) THEN Failure(JsonDecodeError)
    ELSE LET content == AnthropicContent(body)
         IN  IF content # <<>> /\ content[1].variant = "Text"
             THEN [kind |-> "Ok", msg |-> content[1].text]
             ELSE Failure(<<"No text content in response">>)

\* The OK arm of GeminiClient::send_message.
GeminiSendResult(body) ==
    IF ~ParsesAsGeminiResponse(body) THEN Failure(JsonDecodeError)
    ELSE IF FirstCandidateText(body) = <<>>
    THEN Failure(<<"No text content in response">>)
    ELSE [kind |-> "Ok", msg |-> FirstCandidateText(body)]

\* The OK arm of send_message_raw, of both adapters.
RawResult(body) ==
    IF IsJsonBody(body) THEN [kind |-> "Ok", msg |-> body] ELSE Failure(JsonDecodeError)

\* The OK arm of Request::execute with stream = false: what the sink gets
\* (<<>> for no invocation) and the result.
ExecuteSendResult(vb, cfg, body) ==
    IF "tools" \notin cfg.set /\ ~vb
    THEN IF body = <<ARespText>>
         THEN [sink |-> <<(<<"Hi">>)>>, outcome |-> Success]
         ELSE [sink |-> <<>>, outcome |-> Failure(<<"Unable to parse JSON">>)]
    ELSE [sink |-> <<body>>, outcome |-> Success]

\* The result of a buffered call answered with status st and body.
BufferedResult(d, c, st, body) ==
    IF st # 200 THEN Failure(StatusError(d, c, st, body))
    ELSE IF c = "send_raw" THEN RawResult(body)
    ELSE IF d = "gemini" THEN GeminiSendResult(body)
    ELSE AnthropicSendResult(body)

\* The buffered call answering from the result of the call before, if any.
BufferedStatus_Cached ==
    /\ pc = "status" /\ call \in BufferedCalls /\ driver # "execute"
    /\ pc' = "done"
    /\ rest' = <<>>
    /\ outcome' = IF earlier # <<>> THEN earlier[1].outcome
                  ELSE BufferedResult(driver, call, status, payload)
    /\ UNCHANGED <<driver, verbose, payload, buffer, parts, sunk, frameNo, callVars>>

\* send_message / send_message_raw from match response.status() on.
BufferedStatus ==
    /\ pc = "status" /\ call \in BufferedCalls /\ driver # "execute"
    /\ pc' = "done"
    /\ rest' = <<>>
    /\ outcome' = BufferedResult(driver, call, status, payload)
    /\ UNCHANGED <<driver, verbose, payload, buffer, parts, sunk, frameNo, callVars>>

\* Request::execute with stream = false from match response.status() on.
ExecuteBufferedStatus ==
    /\ pc = "status" /\ call = "send" /\ driver = "execute"
    /\ rest' = <<>>
    /\ IF status # 200
       THEN /\ pc' = "done"
            /\ outcome' = Failure(StatusError(driver, call, status, payload))
            /\ sunk' = sunk
       ELSE LET r == ExecuteSendResult(verbose, config, payload)
            IN  /\ pc' = "done"
                /\ outcome' = r.outcome
                /\ sunk' = IF r.sink = <<>> THEN sunk
                           ELSE Invoke(sunk, r.sink[1], 1, 1, 1)
    /\ UNCHANGED <<driver, verbose, payload, buffer, parts, frameNo, callVars>>

\* The same buffered call is made again on the client, after the one before
\* has returned; it gets a response of its own.
SendAgain ==
    /\ pc = "done" /\ call \in BufferedCalls /\ driver # "execute"
    /\ callsLeft > 0
    /\ callsLeft' = callsLeft - 1
    /\ earlier' = Append(earlier, [request |-> request, status |-> status,
                                   body |-> payload, outcome |-> outcome])
    /\ \E r \in Responses(driver, call) :
          /\ status' = r.status
          /\ payload' = r.body
          /\ rest' = r.body
    /\ request' = NoRequest
    /\ outcome' = Pending
    /\ pc' = "build"
    /\ UNCHANGED <<driver, verbose, buffer, parts, sunk, frameNo, call, config, streams,
                   client, caller>>

\* response.chunk().await? yields Some(chunk); from_utf8(&chunk)?; buffer.push_str(s)
StreamMessageRead ==
    /\ driver = "stream_message" /\ pc = "await" /\ rest # <<>>
    /\ \E k \in 1..Len(rest) :
         LET chunk == SubSeq(rest, 1, k)
         IN  /\ rest' = SubSeq(rest, k + 1, Len(rest))
             /\ IF ValidUtf8(chunk)
                THEN /\ buffer' = buffer \o chunk
                     /\ pc' = "dispatch"
                     /\ outcome' = outcome
                ELSE /\ buffer' = buffer
                     /\ pc' = "done"
                     /\ outcome' = Failure(Utf8Error)
    /\ UNCHANGED <<driver, verbose, payload, parts, sunk, frameNo, callVars>>

\* Request::execute: the same read, but from_utf8 failing panics.
ExecuteRead ==
    /\ driver = "execute" /\ pc = "await" /\ rest # <<>>
    /\ \E k \in 1..Len(rest) :
         LET chunk == SubSeq(rest, 1, k)
         IN  /\ rest' = SubSeq(rest, k + 1, Len(rest))
             /\ IF ValidUtf8(chunk)
                THEN /\ buffer' = buffer \o chunk
                     /\ pc' = "dispatch"
                     /\ outcome' = outcome
                ELSE /\ buffer' = buffer
                     /\ pc' = "done"
                     /\ outcome' = Panic(Utf8Error)
    /\ UNCHANGED <<driver, verbose, payload, parts, sunk, frameNo, callVars>>

\* The end of the read loop failing the call when the buffer is not empty.
EndOfData_FailsOnResidual ==
    /\ pc = "await" /\ rest = <<>>
    /\ pc' = "done"
    /\ outcome' = IF buffer = <<>> THEN Success ELSE Failure(<<"unexpected end of stream">>)
    /\ UNCHANGED <<driver, verbose, payload, rest, buffer, parts, sunk, frameNo, callVars>>

\* response.chunk().await? yields None: the while loop ends and the call
\* returns Ok(()); the buffer is dropped.
EndOfData ==
    /\ pc = "await" /\ rest = <<>>
    /\ pc' = "done"
    /\ outcome' = Success
    /\ UNCHANGED <<driver, verbose, payload, rest, buffer, parts, sunk, frameNo, callVars>>

\* The transport error path handing what is buffered to the sink.
TransportFailure_FlushesBuffer ==
    /\ pc = "await"
    /\ pc' = "done"
    /\ outcome' = Failure(TransportError)
    /\ sunk' = IF buffer = <<>> THEN sunk ELSE Invoke(sunk, buffer, frameNo + 1, 1, 1)
    /\ UNCHANGED <<driver, verbose, payload, rest, buffer, parts, frameNo, callVars>>

\* response.chunk().await? yields Err: the call returns the transport error.
TransportFailure ==
    /\ pc = "await"
    /\ pc' = "done"
    /\ outcome' = Failure(TransportError)
    /\ UNCHANGED <<driver, verbose, payload, rest, buffer, parts, sunk, frameNo, callVars>>

\* The iteration with the sentinel test in front of the verbose test.
stream_message_frame_SentinelFirst(buf, log, n, vb) ==
    LET index == find(buf)
    IN  IF index = 0
        THEN [buffer |-> buf, sunk |-> log, frameNo |-> n, pc |-> "await",
              outcome |-> Pending]
        ELSE LET chunk == SubSeq(buf, 1, index - 1)
                 drained == SubSeq(buf, index + 2, Len(buf))
                 processed == process_stream_chunk(chunk)
             IN  IF chunk = <<DataPrefix, DoneLiteral>>
                 THEN [buffer |-> drained, sunk |-> log, frameNo |-> n + 1,
                       pc |-> "await", outcome |-> Pending]
                 ELSE IF vb
                 THEN [buffer |-> drained, sunk |-> Invoke(log, chunk, n + 1, 1, 1),
                       frameNo |-> n + 1, pc |-> "callback", outcome |-> Pending]
                 ELSE IF ~processed.ok
                 THEN [buffer |-> drained, sunk |-> log, frameNo |-> n + 1,
                       pc |-> "done", outcome |-> Failure(processed.val)]
                 ELSE IF processed.val # <<>>
                 THEN [buffer |-> drained,
                       sunk |-> Invoke(log, processed.val, n + 1, 1, 1),
                       frameNo |-> n + 1, pc |-> "callback", outcome |-> Pending]
                 ELSE [buffer |-> drained, sunk |-> log, frameNo |-> n + 1,
                       pc |-> "dispatch", outcome |-> Pending]

\* One iteration of the inner loop of AnthropicClient::stream_message on the
\* buffer buf, with the sink log and the frame count so far: the buffer, log,
\* count, position and outcome after it.
stream_message_frame(buf, log, n, vb) ==
    LET index == find(buf)
    IN  IF index = 0
        THEN [buffer |-> buf, sunk |-> log, frameNo |-> n, pc |-> "await",
              outcome |-> Pending]
        ELSE LET chunk == SubSeq(buf, 1, index - 1)
                 drained == SubSeq(buf, index + 2, Len(buf))
                 processed == process_stream_chunk(chunk)
             IN  IF vb
                 THEN [buffer |-> drained, sunk |-> Invoke(log, chunk, n + 1, 1, 1),
                       frameNo |-> n + 1, pc |-> "callback", outcome |-> Pending]
                 ELSE IF chunk = <<DataPrefix, DoneLiteral>>
                 THEN [buffer |-> drained, sunk |-> log, frameNo |-> n + 1,
                       pc |-> "await", outcome |-> Pending]
                 ELSE IF ~processed.ok
                 THEN [buffer |-> drained, sunk |-> log, frameNo |-> n + 1,
                       pc |-> "done", outcome |-> Failure(processed.val)]
                 ELSE IF processed.val # <<>>
                 THEN [buffer |-> drained,
                       sunk |-> Invoke(log, processed.val, n + 1, 1, 1),
                       frameNo |-> n + 1, pc |-> "callback", outcome |-> Pending]
                 ELSE [buffer |-> drained, sunk |-> log, frameNo |-> n + 1,
                       pc |-> "dispatch", outcome |-> Pending]

\* One iteration of the inner loop of Request::execute (stream = true).
execute_stream_frame(buf, log, n, vb) ==
    LET index == find(buf)
    IN  IF index = 0
        THEN [buffer |-> buf, sunk |-> log, frameNo |-> n, pc |-> "await",
              outcome |-> Pending]
        ELSE LET chunk == SubSeq(buf, 1, index - 1)
                 drained == SubSeq(buf, index + 2, Len(buf))
                 r == execute_frame(chunk)
             IN  IF vb
                 THEN [buffer |-> drained, sunk |-> Invoke(log, chunk, n + 1, 1, 1),
                       frameNo |-> n + 1, pc |-> "callback", outcome |-> Pending]
                 ELSE IF chunk = <<DataPrefix, DoneLiteral>>
                 THEN [buffer |-> drained, sunk |-> log, frameNo |-> n + 1,
                       pc |-> "await", outcome |-> Pending]
                 ELSE IF r.kind = "err"
                 THEN [buffer |-> drained, sunk |-> log, frameNo |-> n + 1,
                       pc |-> "done", outcome |-> Failure(r.val)]
                 ELSE IF r.kind = "callback"
                 THEN [buffer |-> drained, sunk |-> Invoke(log, r.val, n + 1, 1, 1),
                       frameNo |-> n + 1, pc |-> "callback", outcome |-> Pending]
                 ELSE [buffer |-> drained, sunk |-> log, frameNo |-> n + 1,
                       pc |-> "dispatch", outcome |-> Pending]

\* The iteration that leaves a complete frame in the buffer.
StreamMessageDispatch_LeavesFrame ==
    /\ driver = "stream_message" /\ pc = "dispatch"
    /\ IF find(buffer) = 0
       THEN pc' = "await" /\ UNCHANGED <<buffer, sunk, frameNo, outcome>>
       ELSE pc' = "callback" /\ UNCHANGED <<buffer, sunk, frameNo, outcome>>
    /\ UNCHANGED <<driver, verbose, payload, rest, parts, callVars>>

\* One iteration of the inner loop of AnthropicClient::stream_message.
StreamMessageDispatch ==
    /\ driver = "stream_message" /\ pc = "dispatch"
    /\ LET s == stream_message_frame(buffer, sunk, frameNo, verbose)
       IN  /\ buffer' = s.buffer
           /\ sunk' = s.sunk
           /\ frameNo' = s.frameNo
           /\ pc' = s.pc
           /\ outcome' = s.outcome
    /\ UNCHANGED <<driver, verbose, payload, rest, parts, callVars>>

ExecuteDispatch ==
    /\ driver = "execute" /\ pc = "dispatch"
    /\ LET s == execute_stream_frame(buffer, sunk, frameNo, verbose)
       IN  /\ buffer' = s.buffer
           /\ sunk' = s.sunk
           /\ frameNo' = s.frameNo
           /\ pc' = s.pc
           /\ outcome' = s.outcome
    /\ UNCHANGED <<driver, verbose, payload, rest, parts, callVars>>

\* callback(..).await completes: the loop goes on.
CallbackReturn ==
    /\ pc = "callback"
    /\ pc' = "dispatch"
    /\ UNCHANGED <<driver, verbose, payload, rest, buffer, parts, sunk, outcome, frameNo,
                   callVars>>

\* GeminiClient::stream_message: one chunk is read and parsed on its own.
GeminiRead ==
    /\ driver = "gemini" /\ pc = "await" /\ rest # <<>>
    /\ \E k \in 1..Len(rest) :
         LET chunk_str == SubSeq(rest, 1, k)
         IN  /\ rest' = SubSeq(rest, k + 1, Len(rest))
             /\ IF ~ValidUtf8(chunk_str)
                THEN /\ pc' = "done"
                     /\ outcome' = Failure(GeminiUtf8Error)
                     /\ UNCHANGED <<parts, frameNo>>
                ELSE IF trim(chunk_str) = <<>>
                THEN /\ pc' = "await"
                     /\ UNCHANGED <<parts, outcome, frameNo>>
                ELSE IF ~ParsesAsGeminiResponse(chunk_str)
                THEN /\ pc' = "done"
                     /\ outcome' = Failure(GeminiParseError)
                     /\ UNCHANGED <<parts, frameNo>>
                ELSE /\ parts' = GeminiParts(chunk_str)
                     /\ frameNo' = frameNo + 1
                     /\ pc' = "dispatch"
                     /\ outcome' = outcome
    /\ UNCHANGED <<driver, verbose, payload, buffer, sunk, callVars>>

\* One iteration of `for part in candidate.content.parts`.
GeminiDispatch ==
    /\ driver = "gemini" /\ pc = "dispatch"
    /\ IF parts = <<>>
       THEN /\ pc' = "await"
            /\ UNCHANGED <<parts, sunk>>
       ELSE LET p == Head(parts)
                part == GeminiPartOf(p.tok)
            IN  /\ parts' = Tail(parts)
                /\ IF part.variant \in {"Text", "FunctionCall"}
                   THEN /\ sunk' = Invoke(sunk, part.val, frameNo, p.cand, p.part)
                        /\ pc' = "callback"
                   ELSE /\ sunk' = sunk
                        /\ pc' = "dispatch"
    /\ UNCHANGED <<driver, verbose, payload, rest, buffer, outcome, frameNo, callVars>>

Next ==
    \/ SendRequest
    \/ SendFailure
    \/ StreamStatus
    \/ BufferedStatus
    \/ ExecuteBufferedStatus
    \/ SendAgain
    \/ StreamMessageRead
    \/ ExecuteRead
    \/ GeminiRead
    \/ EndOfData
    \/ TransportFailure
    \/ StreamMessageDispatch
    \/ ExecuteDispatch
    \/ GeminiDispatch
    \/ CallbackReturn

Spec == Init /\ [][Next]_vars

\* A step of the call is possible: the call has not returned, or the caller
\* has another buffered call to make (the guards of the actions of Next: one
\* for every value of pc but "done", and SendAgain).
CanStep ==
    pc # "done" \/ (call \in BufferedCalls /\ driver # "execute" /\ callsLeft > 0)

\* The call under a transport that answers every read (a chunk, end-of-data
\* or a failure), a sink whose future completes, and a runtime that goes on
\* polling the call: a step that can be taken is taken.  This is weak
\* fairness of Next, WF_vars(Next), with ENABLED <<Next>>_vars written as the
\* state predicate CanStep.
FairSpec == Spec /\ ([]<>(~CanStep) \/ []<><<Next>>_vars)

-----------------------------------------------------------------------------
(* Two stream calls in flight at once.  Each call owns its locals (response,
   buffer, the loop variables) and its sink; the calls read `verbose` of the
   client through &self.  The calls are taken from the OK arm of the status
   match on. *)

\* The bodies of the two responses.
PairBodies(d) ==
    IF d = "gemini" THEN {ObjectText, ObjectResponse}
    ELSE {EventBody(<<FrameYo>>, TRUE), EventBody(<<FrameErrorNoEvent, FrameYo>>, FALSE)}

\* The locals of a stream call that enters the read loop on body.
FreshStream(d, body) ==
    [driver |-> d, payload |-> body, rest |-> body, buffer |-> <<>>, parts |-> <<>>,
     pc |-> "await", sunk |-> <<>>, outcome |-> Pending, frameNo |-> 0,
     events |-> <<>>]

\* from_utf8(&chunk)?; buffer.push_str(s) of AnthropicClient::stream_message.
stream_message_read(st, chunk) ==
    IF ValidUtf8(chunk)
    THEN [st EXCEPT !.buffer = @ \o chunk, !.pc = "dispatch"]
    ELSE [st EXCEPT !.pc = "done", !.outcome = Failure(Utf8Error)]

\* The same read in Request::execute: from_utf8 failing panics.
execute_read(st, chunk) ==
    IF ValidUtf8(chunk)
    THEN [st EXCEPT !.buffer = @ \o chunk, !.pc = "dispatch"]
    ELSE [st EXCEPT !.pc = "done", !.outcome = Panic(Utf8Error)]

\* The body of the while loop of GeminiClient::stream_message up to the for loops.
gemini_read(st, chunk_str) ==
    IF ~ValidUtf8(chunk_str)
    THEN [st EXCEPT !.pc = "done", !.outcome = Failure(GeminiUtf8Error)]
    ELSE IF trim(chunk_str) = <<>> THEN st
    ELSE IF ~ParsesAsGeminiResponse(chunk_str)
    THEN [st EXCEPT !.pc = "done", !.outcome = Failure(GeminiParseError)]
    ELSE [st EXCEPT !.parts = GeminiParts(chunk_str), !.frameNo = @ + 1,
                    !.pc = "dispatch"]

\* One iteration of `for part in candidate.content.parts`.
gemini_part(st) ==
    IF st.parts = <<>> THEN [st EXCEPT !.pc = "await"]
    ELSE LET p == Head(st.parts)
             part == GeminiPartOf(p.tok)
         IN  IF part.variant \in {"Text", "FunctionCall"}
             THEN [st EXCEPT !.parts = Tail(@), !.pc = "callback",
                             !.sunk = Invoke(@, part.val, st.frameNo, p.cand, p.part)]
             ELSE [st EXCEPT !.parts = Tail(@)]

\* A transport event of a call: a chunk, end-of-data, or a failed read.
ChunkEvent(chunk) == [kind |-> "chunk", data |-> chunk]
EndEvent == [kind |-> "end", data |-> <<>>]
FailEvent == [kind |-> "fail", data |-> <<>>]

\* response.chunk().await of a call, with what the call does on it up to
\* its next step.
on_transport(st, ev) ==
    LET seen == [st EXCEPT !.events = Append(@, ev),
                           !.rest = SubSeq(@, Len(ev.data) + 1, Len(@))]
    IN  CASE ev.kind = "end" -> [seen EXCEPT !.pc = "done", !.outcome = Success]
          [] ev.kind = "fail" ->
               [seen EXCEPT !.pc = "done", !.outcome = Failure(TransportError)]
          [] OTHER -> IF st.driver = "gemini" THEN gemini_read(seen, ev.data)
                      ELSE stream_message_read(seen, ev.data)

\* One step of a call between two transport reads: the inner loop, a return
\* of the sink.
on_step(st, vb) ==
    IF st.pc = "callback" THEN [st EXCEPT !.pc = "dispatch"]
    ELSE IF st.driver = "gemini" THEN gemini_part(st)
    ELSE LET s == stream_message_frame(st.buffer, st.sunk, st.frameNo, vb)
         IN  [st EXCEPT !.buffer = s.buffer, !.sunk = s.sunk, !.frameNo = s.frameNo,
                        !.pc = s.pc, !.outcome = s.outcome]

InitTwo ==
    /\ driver = "stream_message"
    /\ verbose \in BOOLEAN
    /\ payload = <<>> /\ rest = <<>> /\ buffer = <<>> /\ parts = <<>>
    /\ pc = "idle"
    /\ sunk = <<>> /\ outcome = Pending /\ frameNo = 0
    /\ call = "stream"
    /\ config = NewConfig(TRUE, FALSE)
    /\ request = NoRequest
    /\ status = 200
    /\ earlier = <<>>
    /\ callsLeft = 0
    /\ \E d1, d2 \in {"stream_message", "gemini"} :
          \E b1 \in PairBodies(d1), b2 \in PairBodies(d2) :
              streams = <<FreshStream(d1, b1), FreshStream(d2, b2)>>
    /\ client = NoClient
    /\ caller = NoCaller

mainVars ==
    <<driver, verbose, payload, rest, buffer, parts, pc, sunk, outcome, frameNo,
      call, config, request, status, earlier, callsLeft, client, caller>>

\* The read of call i with the buffer of the other call in place of its own.
TwoRead_SharedBuffer(i) ==
    /\ streams[i].pc = "await" /\ streams[i].rest # <<>>
    /\ \E k \in 1..Len(streams[i].rest) :
          streams' = [streams EXCEPT ![i] =
              on_transport([streams[i] EXCEPT !.buffer = streams[3 - i].buffer],
                           ChunkEvent(SubSeq(streams[i].rest, 1, k)))]
    /\ UNCHANGED mainVars

\* response.chunk().await of call i yields a chunk.
TwoRead(i) ==
    /\ streams[i].pc = "await" /\ streams[i].rest # <<>>
    /\ \E k \in 1..Len(streams[i].rest) :
          streams' = [streams EXCEPT ![i] =
              on_transport(streams[i], ChunkEvent(SubSeq(streams[i].rest, 1, k)))]
    /\ UNCHANGED mainVars

\* response.chunk().await of call i yields None.
TwoEndOfData(i) ==
    /\ streams[i].pc = "await" /\ streams[i].rest = <<>>
    /\ streams' = [streams EXCEPT ![i] = on_transport(streams[i], EndEvent)]
    /\ UNCHANGED mainVars

\* response.chunk().await of call i yields Err.
TwoTransportFailure(i) ==
    /\ streams[i].pc = "await"
    /\ streams' = [streams EXCEPT ![i] = on_transport(streams[i], FailEvent)]
    /\ UNCHANGED mainVars

\* Call i goes on between two reads.
TwoStep(i) ==
    /\ streams[i].pc \in {"dispatch", "callback"}
    /\ streams' = [streams EXCEPT ![i] = on_step(streams[i], verbose)]
    /\ UNCHANGED mainVars

NextTwo ==
    \E i \in 1..2 :
        \/ TwoRead(i)
        \/ TwoEndOfData(i)
        \/ TwoTransportFailure(i)
        \/ TwoStep(i)

SpecTwo == InitTwo /\ [][NextTwo]_vars

-----------------------------------------------------------------------------
(* The client objects: construction, the with_* methods, update_config, and
   the requests the client issues, with their headers.  An Option is <<>> for
   None and <<v>> for Some(v); the record of a client has the fields of both
   structs, those of the other struct staying empty. *)

PromptCaching == "prompt-caching-2024-07-31"
OtherBeta == "max-tokens-3-5-sonnet-2024-07-15"
Metadata == "{\"user_id\":\"u\"}"
GeminiToolDecl == "{\"function_declarations\":[{\"name\":\"f\"}]}"
SafetySetting == "{\"category\":\"c\",\"threshold\":\"t\"}"

\* AnthropicClient::with_config
AnthropicWithConfig(cfg) ==
    [variant |-> "Anthropic", config |-> cfg, version |-> "2023-06-01",
     beta |-> <<>>, verbose |-> FALSE, metadata |-> <<>>,
     tools |-> <<>>, safety_settings |-> <<>>, facade |-> FALSE]

\* GeminiClient::with_config
GeminiWithConfig(cfg) ==
    [variant |-> "Gemini", config |-> cfg, version |-> "",
     beta |-> <<>>, verbose |-> FALSE, metadata |-> <<>>,
     tools |-> <<>>, safety_settings |-> <<>>, facade |-> FALSE]

\* The with_* methods take self by value and return it with one field set.
with_beta(cl, beta) == [cl EXCEPT !.beta = <<beta>>]
with_verbose(cl, vb) == [cl EXCEPT !.verbose = vb]
with_metadata(cl, metadata) == [cl EXCEPT !.metadata = <<metadata>>]
with_tools(cl, tools) == [cl EXCEPT !.tools = tools]
with_safety_settings(cl, settings) == [cl EXCEPT !.safety_settings = <<settings>>]

\* LLMClientType::new: `client.clone().with_beta(..)` sets the beta of a
\* clone, which is dropped at the end of the statement; the client that is
\* boxed is the one with_config returned.
LLMClientTypeNew(client_type, streaming, withTools) ==
    LET cfg == NewConfig(streaming, withTools)
    IN  IF client_type = "Anthropic"
        THEN LET stored == AnthropicWithConfig(cfg)
                 dropped == with_beta(stored, PromptCaching)
             IN  [stored EXCEPT !.facade = TRUE]
        ELSE [GeminiWithConfig(cfg) EXCEPT !.facade = TRUE]

\* update_config with the client built anew from the config.
update_config_Rebuilds(cl, cfg) ==
    IF cl.variant = "Anthropic"
    THEN [AnthropicWithConfig(cfg) EXCEPT !.facade = cl.facade]
    ELSE [GeminiWithConfig(cfg) EXCEPT !.facade = cl.facade]

\* update_config of both clients, and of the facade that forwards to them:
\* self.config = config.
update_config(cl, cfg) == [cl EXCEPT !.config = cfg]

\* The headers build_request puts on the request builder it returns.
AnthropicBuildHeaders(cl) ==
    [h \in {"x-api-key", "anthropic-version", "content-type"}
            \cup (IF cl.beta # <<>> THEN {"anthropic-beta"} ELSE {}) |->
        CASE h = "x-api-key" -> "config.api_key"
          [] h = "anthropic-version" -> cl.version
          [] h = "content-type" -> "application/json"
          [] OTHER -> cl.beta[1]]

\* The headers of the request stream_message builds by itself.
AnthropicStreamHeaders(cl) ==
    [h \in {"x-api-key", "anthropic-version", "content-type"} |->
        CASE h = "x-api-key" -> "config.api_key"
          [] h = "anthropic-version" -> cl.version
          [] OTHER -> "application/json"]

\* The body map of build_request: the config, and metadata if there is one.
AnthropicClientBody(cl) ==
    LET b == AnthropicBody(cl.config)
    IN  IF cl.metadata = <<>> THEN b
        ELSE [k \in DOMAIN b \cup {"metadata"} |->
                 IF k = "metadata" THEN cl.metadata ELSE b[k]]

\* The GeminiRequest of build_request: tools and safety_settings of the client.
GeminiClientBody(cl) ==
    [GeminiBody(cl.config) EXCEPT
        !["tools"] = IF cl.tools = <<>> THEN <<"[]">> ELSE cl.tools,
        !["safety_settings"] = IF cl.safety_settings = <<>> THEN <<"null">>
                                ELSE cl.safety_settings]

\* The request call c of the client puts on the wire.
IssuedRequest(cl, c) ==
    IF cl.variant = "Gemini"
    THEN [call |-> c, url |-> GeminiRequestOf(cl.config).url,
          headers |-> [h \in {"content-type"} |-> "application/json"],
          body |-> GeminiClientBody(cl)]
    ELSE IF c = "stream"
    THEN LET b == AnthropicClientBody(cl)
         IN  [call |-> c, url |-> AnthropicMessagesUrl,
              headers |-> AnthropicStreamHeaders(cl),
              body |-> [k \in DOMAIN b \cup {"stream"} |->
                           IF k = "stream" THEN <<"true">> ELSE b[k]]]
    ELSE [call |-> c, url |-> AnthropicMessagesUrl,
          headers |-> AnthropicBuildHeaders(cl),
          body |-> AnthropicClientBody(cl)]

\* The configs a caller hands to with_config and update_config.
ClientConfigs ==
    {NewConfig(s, t) : s, t \in BOOLEAN}
        \cup {Config({"model", "temperature", "system_prompt"}, FALSE)}

callState ==
    <<driver, verbose, payload, rest, buffer, parts, pc, sunk, outcome, frameNo,
      call, config, request, status, earlier, callsLeft, streams>>

InitClient ==
    /\ driver = "stream_message"
    /\ verbose = FALSE
    /\ payload = <<>> /\ rest = <<>> /\ buffer = <<>> /\ parts = <<>>
    /\ pc = "idle"
    /\ sunk = <<>> /\ outcome = Pending /\ frameNo = 0
    /\ call = "send"
    /\ config = NewConfig(FALSE, FALSE)
    /\ request = NoRequest
    /\ status = 200
    /\ earlier = <<>>
    /\ callsLeft = 0
    /\ streams = <<>>
    /\ client = NoClient
    /\ caller = NoCaller

\* LLMClientType::new(client_type, model, streaming, tools)
New ==
    /\ client = NoClient
    /\ \E client_type \in {"Anthropic", "Gemini"}, streaming, withTools \in BOOLEAN :
          /\ client' = LLMClientTypeNew(client_type, streaming, withTools)
          /\ caller' = [caller EXCEPT !.supplied = <<NewConfig(streaming, withTools)>>]
    /\ UNCHANGED callState

\* AnthropicClient::with_config / GeminiClient::with_config, called directly.
WithConfig ==
    /\ client = NoClient
    /\ \E cfg \in ClientConfigs :
          /\ \/ client' = AnthropicWithConfig(cfg)
             \/ client' = GeminiWithConfig(cfg)
          /\ caller' = [caller EXCEPT !.supplied = <<cfg>>]
    /\ UNCHANGED callState

\* A with_* method of AnthropicClient, on a client its owner holds directly
\* and has not used yet.
AnthropicWith ==
    /\ client.variant = "Anthropic" /\ ~client.facade
    /\ caller.issued = NoIssued /\ Len(caller.supplied) = 1
    /\ \/ \E beta \in {PromptCaching, OtherBeta} : client' = with_beta(client, beta)
       \/ client' = with_verbose(client, ~client.verbose)
       \/ client' = with_metadata(client, Metadata)
    /\ UNCHANGED <<callState, caller>>

\* A with_* method of GeminiClient.
GeminiWith ==
    /\ client.variant = "Gemini" /\ ~client.facade
    /\ caller.issued = NoIssued /\ Len(caller.supplied) = 1
    /\ \/ client' = with_tools(client, <<GeminiToolDecl>>)
       \/ client' = with_safety_settings(client, SafetySetting)
    /\ UNCHANGED <<callState, caller>>

\* update_config(config), on the client or through the facade.
UpdateConfig ==
    /\ client # NoClient
    /\ Len(caller.supplied) <= MaxUpdates
    /\ \E cfg \in ClientConfigs :
          /\ client' = update_config(client, cfg)
          /\ caller' = [caller EXCEPT !.supplied = Append(@, cfg)]
    /\ UNCHANGED callState

\* send_message, send_message_raw or stream_message builds and sends its request.
Issue ==
    /\ client # NoClient
    /\ \E c \in {"send", "send_raw", "stream"} :
          caller' = [caller EXCEPT !.issued = IssuedRequest(client, c)]
    /\ UNCHANGED <<callState, client>>

NextClient ==
    \/ New
    \/ WithConfig
    \/ AnthropicWith
    \/ GeminiWith
    \/ UpdateConfig
    \/ Issue

SpecClient == InitClient /\ [][NextClient]_vars

-----------------------------------------------------------------------------
(* The whole body delivered as one chunk *)

\* The inner loop, run until the driver leaves it.
RECURSIVE DrainBuffer(_, _, _)
DrainBuffer(d, vb, st) ==
    IF st.pc = "dispatch"
    THEN DrainBuffer(d, vb,
             IF d = "stream_message"
             THEN stream_message_frame(st.buffer, st.sunk, st.frameNo, vb)
             ELSE execute_stream_frame(st.buffer, st.sunk, st.frameNo, vb))
    ELSE IF st.pc = "callback"
    THEN DrainBuffer(d, vb, [st EXCEPT !.pc = "dispatch"])
    ELSE st

\* The sink log and the outcome of an event-stream call whose transport
\* delivers body in a single chunk and then signals end-of-data.
SingleChunkRun(d, vb, body) ==
    IF body = <<>> THEN [sunk |-> <<>>, outcome |-> Success]
    ELSE IF ~ValidUtf8(body)
    THEN [sunk |-> <<>>,
          outcome |-> IF d = "execute" THEN Panic(Utf8Error) ELSE Failure(Utf8Error)]
    ELSE LET st == DrainBuffer(d, vb,
                       [buffer |-> body, sunk |-> <<>>, frameNo |-> 0,
                        pc |-> "dispatch", outcome |-> Pending])
         IN  [sunk |-> st.sunk,
              outcome |-> IF st.pc = "done" THEN st.outcome ELSE Success]

\* The fragments of a sink log, in order.
Fragments(log) == [i \in 1..Len(log) |-> log[i].frag]

\* The complete frames of an event-stream body, in order.
RECURSIVE Frames(_)
Frames(body) ==
    IF find(body) = 0 THEN <<>>
    ELSE <<SubSeq(body, 1, find(body) - 1)>>
             \o Frames(SubSeq(body, find(body) + 2, Len(body)))

\* The bytes of the body after its last complete frame.
RECURSIVE Residual(_)
Residual(body) ==
    IF find(body) = 0 THEN body
    ELSE Residual(SubSeq(body, find(body) + 2, Len(body)))

\* A non-verbose stream call of an event-stream driver that got to read its body.
NonVerboseEventStream ==
    /\ driver \in EventDrivers /\ ~verbose
    /\ call = "stream" /\ status = 200 /\ outcome # Failure(SendError)

\* The call ended in reading the transport, not in a frame.
TransportLevel(o) == o \in {Failure(TransportError), Failure(Utf8Error), Panic(Utf8Error)}

-----------------------------------------------------------------------------
(* C1: chunk-boundary invariance.  In non-verbose mode, however the body is
   cut into chunks, a call that the transport lets run to its end delivers
   the same fragments and resolves with the same outcome as the call that
   receives the whole body as one chunk. *)
C1_ChunkBoundaryInvariance ==
    (NonVerboseEventStream /\ pc = "done" /\ outcome # Failure(TransportError))
        => /\ Fragments(sunk) = Fragments(SingleChunkRun(driver, verbose, payload).sunk)
           /\ outcome = SingleChunkRun(driver, verbose, payload).outcome

-----------------------------------------------------------------------------
(* What a frame says, read off the wire format of the event-stream provider:
   an optional `event: <name>` line, then `data: <json>`. *)

EventNameLines ==
    {EvMessageStart, EvContentBlockStart, EvPing, EvContentBlockDelta,
     EvContentBlockStop, EvMessageDelta, EvMessageStop, EvError}

HasDataPayload(f) ==
    /\ Len(f) \in {2, 4}
    /\ f[Len(f) - 1] = DataPrefix
    /\ f[Len(f)] \in JsonTokens
    /\ Len(f) = 4 => (f[1] \in EventNameLines /\ f[2] = NL)

DataPayload(f) == JsonMembers(f[Len(f)])

\* The payload is a well-formed error envelope {type, error: {type, message}}.
IsErrorEnvelopeFrame(f) ==
    HasDataPayload(f) /\ DataPayload(f).hasType /\ DataPayload(f).hasError

\* The payload is a content delta whose delta has a text member.
CarriesDeltaText(f) ==
    HasDataPayload(f) /\ DataPayload(f).hasType /\ ~DataPayload(f).hasError
        /\ DataPayload(f).delta = "text"

DeltaTextOf(f) == IF CarriesDeltaText(f) THEN DataPayload(f).text ELSE <<>>

\* Neither the sentinel, nor an error envelope, nor a delta with text.
Ignorable(f) == f # FrameDone /\ ~IsErrorEnvelopeFrame(f) /\ ~CarriesDeltaText(f)

\* The message of the failure that an error-envelope frame asks for.
ProviderMessage(f) == FormatError(DataPayload(f).errType, DataPayload(f).errMessage)

\* The sink invocations made for frame j.
SunkFor(j) == {k \in 1..Len(sunk) : sunk[k].frame = j}

-----------------------------------------------------------------------------
(* C2: in non-verbose mode, once the sentinel frame `data: [DONE]` has been
   drained the stream is done: the sink is invoked neither for the sentinel
   nor for any frame after it, and the call, unless reading the transport
   fails it, resolves with success. *)
C2_SentinelEndsStream ==
    NonVerboseEventStream =>
        LET fs == Frames(payload)
        IN  \A j \in 1..frameNo :
                (j <= Len(fs) /\ fs[j] = FrameDone)
                    => /\ \A k \in 1..Len(sunk) : sunk[k].frame < j
                       /\ (pc = "done" /\ ~TransportLevel(outcome)) => outcome = Success

(* C3: in non-verbose mode a drained frame `event: error` + `data: <error
   envelope>` with error type T and message M ends the call with the failure
   `T: M`: it is the last frame drained, the sink is invoked for no frame from
   it on, and every earlier frame that carries a non-empty delta text has had
   its fragment delivered. *)
C3_ErrorFrameFails ==
    NonVerboseEventStream =>
        LET fs == Frames(payload)
        IN  \A j \in 1..frameNo :
                (j <= Len(fs) /\ IsErrorEnvelopeFrame(fs[j]) /\ StartsWith(fs[j], EvError))
                    => /\ pc = "done"
                       /\ outcome = Failure(ProviderMessage(fs[j]))
                       /\ frameNo = j
                       /\ \A k \in 1..Len(sunk) : sunk[k].frame < j
                       /\ \A i \in 1..(j - 1) :
                             DeltaTextOf(fs[i]) # <<>>
                                 => \E k \in SunkFor(i) : sunk[k].frag = DeltaTextOf(fs[i])

\* A delta frame was delivered, then an `event: error` frame failed the call.
C3_Witness ==
    /\ NonVerboseEventStream
    /\ Frames(payload) = <<FrameHi, FrameError>>
    /\ frameNo = 2
    /\ Fragments(sunk) = <<(<<"Hi">>)>>
    /\ outcome = Failure(<<"overloaded_error", ": ", "x">>)

-----------------------------------------------------------------------------
(* The object stream *)

\* The fragments the parts of one response object give: the text of a text
\* part, the serialized call of a function-call part.
ObjectFragments(object) ==
    LET ps == GeminiParts(object)
        kept == SelectSeq(ps, LAMBDA p :
                    GeminiPartOf(p.tok).variant \in {"Text", "FunctionCall"})
    IN  [i \in 1..Len(kept) |-> GeminiPartOf(kept[i].tok).val]

(* C4: a JSON object of the object stream that arrives split over several
   chunks is buffered until complete: the call does not fail on a partial
   chunk, and once the transport has delivered the whole object the fragments
   are those of the object arriving in one chunk. *)
C4_SplitObjectIsBuffered ==
    (driver = "gemini" /\ call = "stream" /\ status = 200
       /\ ParsesAsGeminiResponse(payload) /\ pc = "done"
       /\ ~TransportLevel(outcome) /\ outcome # Failure(SendError))
        => /\ outcome = Success
           /\ Fragments(sunk) = ObjectFragments(payload)

(* C5: in non-verbose mode a drained frame `event: content_block_delta` +
   `data: <content delta>` whose delta text t is not empty has caused exactly
   one sink invocation, and its argument is exactly t. *)
C5_DeltaFrameYieldsItsText ==
    NonVerboseEventStream =>
        LET fs == Frames(payload)
        IN  \A j \in 1..frameNo :
                (j <= Len(fs) /\ StartsWith(fs[j], EvContentBlockDelta)
                   /\ DeltaTextOf(fs[j]) # <<>>)
                    => /\ Cardinality(SunkFor(j)) = 1
                       /\ \A k \in SunkFor(j) : sunk[k].frag = DeltaTextOf(fs[j])

\* The spec's example frame was drained and "Hi" delivered.
C5_Witness ==
    /\ NonVerboseEventStream
    /\ Frames(payload) = <<FrameHi>>
    /\ frameNo = 1
    /\ Fragments(sunk) = <<(<<"Hi">>)>>

(* C6: in non-verbose mode a drained frame that is neither the sentinel nor
   an error envelope and carries no delta text causes no sink invocation and
   no failure of the call (while it is the last frame drained, the call is
   pending, successful, or failed in reading the transport), and the frames
   drained after it are processed: each one that carries a non-empty delta
   text has its fragment delivered. *)
C6_IgnorableFrameIsSkipped ==
    NonVerboseEventStream =>
        LET fs == Frames(payload)
        IN  \A j \in 1..frameNo :
                (j <= Len(fs) /\ Ignorable(fs[j]))
                    => /\ SunkFor(j) = {}
                       /\ frameNo = j
                            => (outcome \in {Pending, Success} \/ TransportLevel(outcome))
                       /\ (frameNo = j /\ pc = "done")
                            => (rest = <<>> \/ TransportLevel(outcome))
                       /\ \A i \in (j + 1)..frameNo :
                             (i <= Len(fs) /\ DeltaTextOf(fs[i]) # <<>>)
                                 => \E k \in SunkFor(i) : sunk[k].frag = DeltaTextOf(fs[i])

\* A ping frame was skipped and the delta frame behind it delivered.
C6_Witness ==
    /\ NonVerboseEventStream
    /\ Frames(payload) = <<FramePing, FrameHi>>
    /\ frameNo = 2
    /\ Fragments(sunk) = <<(<<"Hi">>)>>
    /\ pc = "done"
    /\ outcome = Success

(* C7: in non-verbose mode every drained frame whose `data:` payload is a
   well-formed error envelope fails the call with `<error type>: <message>`,
   whatever its event line (`event: error`, another event name, or none). *)
C7_ErrorEnvelopeAlwaysFatal ==
    NonVerboseEventStream =>
        LET fs == Frames(payload)
        IN  \A j \in 1..frameNo :
                (j <= Len(fs) /\ IsErrorEnvelopeFrame(fs[j]))
                    => /\ pc = "done"
                       /\ outcome = Failure(ProviderMessage(fs[j]))

(* C8: when the transport closes while the buffer holds a residual without a
   delimiter, the residual gets a final decode attempt: a residual that is an
   `event: error` frame with a well-formed error envelope fails the call. *)
C8_ResidualIsDecoded ==
    (/\ NonVerboseEventStream
     /\ pc = "done" /\ rest = <<>> /\ ~TransportLevel(outcome)
     /\ (\A j \in 1..Len(Frames(payload)) : Frames(payload)[j] # FrameDone)
     /\ find(buffer) = 0 /\ buffer = Residual(payload)
     /\ IsErrorEnvelopeFrame(buffer) /\ StartsWith(buffer, EvError))
        => outcome = Failure(ProviderMessage(buffer))

(* C9: whenever an event-stream driver awaits the next transport read, the
   buffer holds no complete frame (no double line break). *)
C9_NoCompleteFrameWhileAwaiting ==
    (driver \in EventDrivers /\ pc = "await") => find(buffer) = 0

-----------------------------------------------------------------------------
\* The response objects of an object-stream body, in order, blank runs skipped.
RECURSIVE ObjectsOf(_)
ObjectsOf(body) ==
    LET t == trim_start(body)
    IN  IF \E i \in 1..Len(t) : t[i] = GClose
        THEN LET i == CHOOSE i \in 1..Len(t) :
                          t[i] = GClose /\ \A h \in 1..(i - 1) : t[h] # GClose
             IN  <<SubSeq(t, 1, i)>> \o ObjectsOf(SubSeq(t, i + 1, Len(t)))
        ELSE <<>>

\* Sink invocation a is for an earlier place of the byte stream than b.
Earlier(a, b) ==
    \/ a.frame < b.frame
    \/ a.frame = b.frame /\ a.cand < b.cand
    \/ a.frame = b.frame /\ a.cand = b.cand /\ a.part < b.part

\* The fragment of sink invocation e is the one its place of the byte stream holds.
FragmentOfItsPlace(e) ==
    IF driver = "gemini"
    THEN LET os == ObjectsOf(payload)
         IN  /\ e.frame <= Len(os)
             /\ \E q \in 1..Len(GeminiParts(os[e.frame])) :
                   LET p == GeminiParts(os[e.frame])[q]
                   IN  p.cand = e.cand /\ p.part = e.part
                           /\ e.frag = GeminiPartOf(p.tok).val
    ELSE LET fs == Frames(payload)
         IN  /\ e.frame <= Len(fs)
             /\ e.frag = IF verbose THEN fs[e.frame] ELSE DeltaTextOf(fs[e.frame])

SinkLogInArrivalOrder ==
    call = "stream" =>
        /\ \A a, b \in 1..Len(sunk) : a < b => Earlier(sunk[a], sunk[b])
        /\ \A a \in 1..Len(sunk) : FragmentOfItsPlace(sunk[a])

(* C10: fragments reach the sink in arrival order: the sink invocations are
   in the order of the frames (object stream: chunks, candidates, parts) of
   the byte stream, each with the fragment of its place, and while a sink
   invocation is running the driver does nothing else: no frame is drained,
   no part visited, no chunk read, no other invocation made. *)
C10_SinkInArrivalOrder ==
    /\ []SinkLogInArrivalOrder
    /\ [][pc = "callback"
            => (pc' = "dispatch"
                  /\ UNCHANGED <<sunk, frameNo, buffer, parts, rest, outcome>>)]_vars

\* Two delta frames, delivered in their order.
C10_Witness ==
    /\ driver \in EventDrivers
    /\ Frames(payload) = <<FrameHi, FrameYo>>
    /\ Fragments(sunk) = <<(<<"Hi">>), (<<"Yo">>)>>

-----------------------------------------------------------------------------
\* A stream call of a driver that extracts fragments (not the verbose mode,
\* which hands the raw frames to the sink).
ExtractingStream == call = "stream" /\ ~verbose

(* C11: in every streaming driver that extracts fragments, the sink is
   invoked only with non-empty fragments: a content delta or a text part
   whose text is the empty string causes no sink invocation. *)
C11_SinkOnlyNonEmpty ==
    ExtractingStream => \A k \in 1..Len(sunk) : sunk[k].frag # <<>>

-----------------------------------------------------------------------------
\* The part of the body that the transport has handed over.
Delivered == SubSeq(payload, 1, Len(payload) - Len(rest))

\* Every sink invocation is for a frame (object stream: a response object)
\* that was received whole, delimiter included; the verbose mode passes that
\* frame itself.
SunkFramesAreComplete ==
    call = "stream" =>
        \A k \in 1..Len(sunk) :
            IF driver = "gemini"
            THEN sunk[k].frame <= Len(ObjectsOf(Delivered))
            ELSE LET fs == Frames(Delivered)
                 IN  /\ sunk[k].frame <= Len(fs)
                     /\ verbose => sunk[k].frag = fs[sunk[k].frame]

(* C12: the sink is never invoked with data of a frame whose delimiter has
   not been received.  When a transport read fails, the call resolves at
   once as the transport failure, the step invokes the sink for nothing (the
   buffered partial frame is dropped), and after the call has resolved the
   sink log never changes, so the fragments delivered before stay as they
   were. *)
C12_NoSinkForIncompleteFrame ==
    /\ []SunkFramesAreComplete
    /\ [][(call = "stream" /\ pc = "await" /\ outcome' = Failure(TransportError))
            => (pc' = "done" /\ sunk' = sunk)]_vars
    /\ [][(call = "stream" /\ pc = "done") => (pc' = "done" /\ sunk' = sunk)]_vars

\* A fragment was delivered, then the transport failed while the buffer held
\* a partial frame.
C12_Witness ==
    /\ call = "stream" /\ driver \in EventDrivers
    /\ pc = "done" /\ outcome = Failure(TransportError)
    /\ buffer # <<>> /\ find(buffer) = 0
    /\ Fragments(sunk) = <<(<<"Hi">>)>>

-----------------------------------------------------------------------------
\* Every fragment of the complete frames of the body (object stream: every
\* text and function-call part of its objects) has been handed to the sink.
AllFragmentsDelivered ==
    IF driver = "gemini"
    THEN LET os == ObjectsOf(payload)
         IN  \A j \in 1..Len(os) :
                 \A q \in 1..Len(GeminiParts(os[j])) :
                     LET p == GeminiParts(os[j])[q]
                         part == GeminiPartOf(p.tok)
                     IN  (part.variant \in {"Text", "FunctionCall"} /\ part.val # <<>>)
                            => \E k \in SunkFor(j) :
                                   /\ sunk[k].cand = p.cand /\ sunk[k].part = p.part
                                   /\ sunk[k].frag = part.val
    ELSE LET fs == Frames(payload)
         IN  \A j \in 1..Len(fs) :
                 IF verbose
                 THEN \E k \in SunkFor(j) : sunk[k].frag = fs[j]
                 ELSE DeltaTextOf(fs[j]) # <<>>
                         => \E k \in SunkFor(j) : sunk[k].frag = DeltaTextOf(fs[j])

\* The body holds no sentinel frame.
NoSentinel == \A j \in 1..Len(Frames(payload)) : Frames(payload)[j] # FrameDone

(* C13: when the transport signals end-of-data (the read loop awaits a chunk
   and the body is exhausted) and no error frame has failed the call, the
   call resolves with success; and a call that ended so, on a body without
   sentinel, has delivered the fragments of every complete frame received. *)
C13_GracefulEnd ==
    /\ [][(call = "stream" /\ pc = "await" /\ rest = <<>> /\ pc' = "done"
             /\ outcome' # Failure(TransportError))
            => outcome' = Success]_vars
    /\ []((call = "stream" /\ pc = "done" /\ outcome = Success
             /\ (driver \in EventDrivers => NoSentinel))
            => AllFragmentsDelivered)

\* The body ended inside a frame, without sentinel: the complete frame before
\* it was delivered and the call succeeded.
C13_Witness ==
    /\ call = "stream" /\ driver \in EventDrivers /\ ~verbose
    /\ payload = EventBody(<<FrameHi, FrameYo>>, FALSE)
    /\ pc = "done" /\ outcome = Success
    /\ buffer = FrameYo
    /\ Fragments(sunk) = <<(<<"Hi">>)>>

-----------------------------------------------------------------------------
Is2xx(st) == st \in 200..299

\* The call got a response and is past `match response.status()`.
StatusMatched == pc \notin {"build", "status"} /\ outcome # Failure(SendError)

Contains(msg, tok) == \E i \in 1..Len(msg) : msg[i] = tok

\* The body parses as the error envelope of the provider of the driver.
IsProviderEnvelope(d, body) ==
    IF d = "gemini" THEN ParsesAsGeminiError(body) ELSE ParsesAsErrorMessage(body)

\* The message carries the code (error type) and the message of the envelope,
\* or the envelope itself.
CarriesProviderError(d, msg, body) ==
    \/ d = "gemini" /\ Contains(msg, "429") /\ Contains(msg, "quota")
    \/ d # "gemini" /\ Contains(msg, JsonMembers(body[1]).errType)
                    /\ Contains(msg, JsonMembers(body[1]).errMessage)
    \/ \A i \in 1..Len(body) : Contains(msg, body[i])

\* The message carries the HTTP status and the body.
CarriesStatusAndBody(msg, st, body) ==
    /\ Contains(msg, StatusText(st))
    /\ \A i \in 1..Len(body) : Contains(msg, body[i])

(* C14: a response whose status is not 2xx, and only such a response, fails
   the call in the status match, without any sink invocation; the failure
   carries the provider error code and message when the body parses as the
   provider's error envelope, and the HTTP status and the body otherwise. *)
C14_StatusFailure ==
    StatusMatched =>
        IF Is2xx(status)
        THEN outcome # Failure(StatusError(driver, call, status, payload))
        ELSE /\ pc = "done"
             /\ outcome.kind = "Err"
             /\ sunk = <<>>
             /\ IF IsProviderEnvelope(driver, payload)
                THEN CarriesProviderError(driver, outcome.msg, payload)
                ELSE CarriesStatusAndBody(outcome.msg, status, payload)

-----------------------------------------------------------------------------
(* C15: in the object stream, once a parsed chunk has been gone through,
   every function-call part and every function-response part of it has been
   passed to the sink as a fragment of its own (a sink invocation for its
   place, with a non-empty serialized form); none of them is dropped. *)
C15_FunctionPartsReachSink ==
    (driver = "gemini" /\ call = "stream" /\ pc \in {"await", "done"})
        => LET os == ObjectsOf(payload)
           IN  \A j \in 1..frameNo :
                   j <= Len(os) =>
                       \A q \in 1..Len(GeminiParts(os[j])) :
                           LET p == GeminiParts(os[j])[q]
                           IN  GeminiPartOf(p.tok).variant
                                       \in {"FunctionCall", "FunctionResponse"}
                                  => \E k \in SunkFor(j) :
                                         /\ sunk[k].cand = p.cand
                                         /\ sunk[k].part = p.part
                                         /\ sunk[k].frag # <<>>

-----------------------------------------------------------------------------
\* The key of the request body that belongs to an option ("" when the
\* builder of the driver has none for it).
OptionKey(d, opt) ==
    IF d = "gemini" THEN (IF opt = "tools" THEN "tools" ELSE GeminiKey(opt))
    ELSE AnthropicKey(opt)

RequestBuilt == request # NoRequest

(* C16: an option that is unset in the configuration is absent from the body
   of the request: its key is not sent, neither with null nor with a default
   value. *)
C16_UnsetOptionsOmitted ==
    RequestBuilt =>
        \A opt \in Options \ config.set : OptionKey(driver, opt) \notin DOMAIN request.body

-----------------------------------------------------------------------------
\* The option, set in the configuration, shows in the request: its value is
\* sent under its key (the model of the object-stream provider: in the url).
Reflected(d, opt, req) ==
    IF d = "gemini" /\ opt = "model"
    THEN req.url \in {GeminiStreamUrl, GeminiBufferedUrl}
    ELSE /\ OptionKey(d, opt) \in DOMAIN req.body
         /\ Contains(req.body[OptionKey(d, opt)], SampleValue(opt))

(* C17: every option that is set in the LLMConfig of an adapter
   (AnthropicClient, GeminiClient) is reflected in the request the adapter
   sends: tools and system_prompt as well as the sampling options. *)
C17_SetOptionsReflected ==
    (RequestBuilt /\ driver \in {"stream_message", "gemini"})
        => \A opt \in config.set : Reflected(driver, opt, request)

-----------------------------------------------------------------------------
\* The request targets the streaming variant of the endpoint: the
\* :streamGenerateContent url of the object-stream provider, `"stream": true`
\* in the body for the event-stream provider.
TargetsStreaming(d, req) ==
    IF d = "gemini" THEN req.url = GeminiStreamUrl
    ELSE "stream" \in DOMAIN req.body /\ req.body["stream"] = <<"true">>

(* C18: for both adapters and every value of the streaming flag of the
   configuration, the request of a stream_message call targets the streaming
   endpoint variant and the request of a send_message / send_message_raw
   call targets the buffered variant. *)
C18_EndpointFollowsCall ==
    (RequestBuilt /\ driver \in {"stream_message", "gemini"})
        => (TargetsStreaming(driver, request) <=> call = "stream")

-----------------------------------------------------------------------------
\* A buffered call of an adapter (send_message, send_message_raw).
BufferedAdapterCall == call \in BufferedCalls /\ driver \in {"stream_message", "gemini"}

\* What a call of the client returns for a response of its own, whatever was
\* called on the client before: the failure to send, or the result of the
\* status match on that response.
OwnResult(o, st, body) ==
    o \in {Failure(SendError), BufferedResult(driver, call, st, body)}

(* C20: buffered calls made one after the other on one client with the same
   parameters each send a request of their own, the same request each time,
   and the result of each is determined by the response to its own request;
   no step of a call changes the client (its configuration, its verbose
   flag). *)
C20_SendsAreIndependent ==
    /\ [](BufferedAdapterCall =>
            /\ \A i \in 1..Len(earlier) :
                  /\ earlier[i].request = RequestOf(driver, call, config)
                  /\ OwnResult(earlier[i].outcome, earlier[i].status, earlier[i].body)
            /\ RequestBuilt => request = RequestOf(driver, call, config)
            /\ pc = "done" => OwnResult(outcome, status, payload))
    /\ [][config' = config /\ verbose' = verbose /\ driver' = driver]_vars

\* Two sends on one client: the first answered 200 returned a text, the
\* second answered 500 failed.
C20_Witness ==
    /\ BufferedAdapterCall /\ call = "send"
    /\ Len(earlier) = 1
    /\ earlier[1].status = 200 /\ earlier[1].outcome.kind = "Ok"
    /\ pc = "done" /\ status = 500 /\ outcome.kind = "Err"
    /\ outcome # Failure(SendError)

-----------------------------------------------------------------------------
\* A call run on its own up to its next transport read.
RECURSIVE Settle(_, _)
Settle(st, vb) ==
    IF st.pc \in {"dispatch", "callback"} THEN Settle(on_step(st, vb), vb) ELSE st

\* The call that meets the transport events evs and no other call.
RECURSIVE RunAlone(_, _, _)
RunAlone(st, vb, evs) ==
    IF evs = <<>> THEN st
    ELSE RunAlone(Settle(on_transport(st, Head(evs)), vb), vb, Tail(evs))

(* C19: two stream calls in flight at once share no mutable state: under
   every interleaving of their steps, whenever a call is at a transport read
   or has resolved, its sink log, its outcome and its buffer are those of the
   call that meets the same transport events alone. *)
C19_StreamsAreIndependent ==
    \A i \in 1..Len(streams) :
        streams[i].pc \in {"await", "done"}
            => streams[i] = RunAlone(FreshStream(streams[i].driver, streams[i].payload),
                                     verbose, streams[i].events)

\* Both calls, on one client, are in the middle of their bodies, each with a
\* partial frame in its buffer.
C19_Witness ==
    /\ Len(streams) = 2
    /\ \A i \in 1..2 :
          /\ streams[i].driver = "stream_message"
          /\ streams[i].pc = "await"
          /\ streams[i].rest # <<>>
          /\ streams[i].buffer # <<>>
    /\ streams[1].sunk # <<>>
    /\ streams[1].payload # streams[2].payload

-----------------------------------------------------------------------------
\* The texts of the text items of a response to send_message, read off the
\* wire: the content items of type text, the text parts of the candidates.
TextItems(d, body) ==
    IF d = "gemini"
    THEN LET ps == SelectSeq(GeminiParts(body),
                       LAMBDA p : GeminiPartOf(p.tok).variant = "Text")
         IN  {GeminiPartOf(ps[i].tok).val : i \in 1..Len(ps)}
    ELSE LET content == AnthropicContent(body)
         IN  {content[i].text : i \in {h \in 1..Len(content) :
                                           content[h].variant = "Text"}}

\* send_message of an adapter has returned on a 200 response that decodes.
SendReturnedOnOk ==
    /\ driver \in {"stream_message", "gemini"} /\ call = "send"
    /\ pc = "done" /\ status = 200 /\ outcome # Failure(SendError)
    /\ IF driver = "gemini" THEN ParsesAsGeminiResponse(payload)
       ELSE ParsesAsAnthropicResponse(payload)

(* C25: on a 200 response send_message returns the text of a text item
   whenever the response holds one, and fails with `No text content in
   response` only when the response holds no text item at all. *)
C25_TextReturnedWhenPresent ==
    SendReturnedOnOk =>
        /\ TextItems(driver, payload) # {}
              => (outcome.kind = "Ok" /\ outcome.msg \in TextItems(driver, payload))
        /\ outcome = Failure(<<"No text content in response">>)
              => TextItems(driver, payload) = {}

-----------------------------------------------------------------------------
\* A non-verbose stream call of one of the two event-stream drivers.
NonVerboseEventCall == driver \in EventDrivers /\ ~verbose /\ call = "stream"

\* The locals of the running call that a transport read works on.
ReadLocals == [buffer |-> buffer, pc |-> pc, outcome |-> outcome]

(* C22: the two event-stream drivers are equivalent in non-verbose mode: in
   every state a stream call of either driver reaches, the other driver takes
   the same step - the same read of every next chunk, the same iteration of
   the inner loop - so that on every sequence of chunks both invoke the sink
   with the same fragments and resolve with the same outcome. *)
C22_DriversEquivalent ==
    NonVerboseEventCall =>
        /\ pc = "dispatch"
              => stream_message_frame(buffer, sunk, frameNo, FALSE)
                     = execute_stream_frame(buffer, sunk, frameNo, FALSE)
        /\ pc = "await"
              => \A k \in 1..Len(rest) :
                     stream_message_read(ReadLocals, SubSeq(rest, 1, k))
                         = execute_read(ReadLocals, SubSeq(rest, 1, k))

-----------------------------------------------------------------------------
\* A verbose stream call of an event-stream driver that got to read its body.
VerboseEventStream ==
    /\ driver \in EventDrivers /\ verbose
    /\ call = "stream" /\ status = 200 /\ outcome # Failure(SendError)

(* C23: in verbose mode the frames drained so far have each been handed to
   the sink verbatim (the frame without its delimiter), once and in arrival
   order, the `data: [DONE]` sentinel and error envelopes included; no frame
   fails the call (only the transport does: a failed read, a chunk that is
   not valid UTF-8), and the call that the transport lets run to end-of-data
   resolves with success after every complete frame of the body. *)
C23_VerboseDeliversEveryFrame ==
    VerboseEventStream =>
        LET fs == Frames(payload)
        IN  /\ Len(sunk) = frameNo
            /\ frameNo <= Len(fs)
            /\ \A j \in 1..Len(sunk) : sunk[j].frame = j /\ sunk[j].frag = fs[j]
            /\ outcome \in {Pending, Success} \/ TransportLevel(outcome)
            /\ (pc = "done" /\ outcome = Success)
                  => (rest = <<>> /\ frameNo = Len(fs))

\* A verbose call has resolved on a body holding the sentinel and then an
\* error envelope, both handed to the sink.
C23_Witness ==
    /\ VerboseEventStream
    /\ pc = "done" /\ outcome = Success
    /\ Frames(payload) = <<FrameDone, FrameError>>
    /\ Fragments(sunk) = <<FrameDone, FrameError>>

-----------------------------------------------------------------------------
\* A stream call of an event-stream driver.
EventStreamCall == driver \in EventDrivers /\ call = "stream"

\* An iteration of the inner loop either finds no complete frame and leaves
\* the loop with the buffer as it is, or removes the first frame and its two
\* delimiter bytes from the buffer.
IterationShrinksBuffer ==
    (EventStreamCall /\ pc = "dispatch")
        => IF find(buffer) = 0
           THEN pc' = "await" /\ buffer' = buffer
           ELSE /\ buffer' = SubSeq(buffer, find(buffer) + 2, Len(buffer))
                /\ Len(buffer') < Len(buffer)
                /\ frameNo' = frameNo + 1

(* C24: on every body, however it is cut into chunks, the stream call of an
   event-stream driver terminates: every iteration of the inner loop removes
   one frame and its delimiter from the buffer or leaves the loop, and the
   call ends (it resolves, or - Request::execute on a chunk that is not valid
   UTF-8 - panics) once the transport reports end-of-data or a failure. *)
C24_StreamCallTerminates ==
    /\ EventStreamCall ~> (pc = "done")
    /\ [][IterationShrinksBuffer /\ CanStep]_vars

\* A call has ended with success after the inner loop drained two frames that
\* arrived in one chunk.
C24_Witness ==
    /\ EventStreamCall
    /\ pc = "done" /\ outcome = Success
    /\ frameNo = 2 /\ Len(Frames(payload)) = 2
    /\ Len(sunk) = 2

-----------------------------------------------------------------------------
(* C21: the client LLMClientType::new(ClientType::Anthropic, ..) stores
   carries the Anthropic-specific configuration: its beta is
   `prompt-caching-2024-07-31`. *)
C21_NewCarriesBeta ==
    (client.variant = "Anthropic" /\ client.facade)
        => client.beta = <<PromptCaching>>

-----------------------------------------------------------------------------
(* C26: once a beta value has been set on an AnthropicClient, every request
   the client issues - send_message, send_message_raw, stream_message -
   carries the header `anthropic-beta` with that value, together with the
   api-key, version and content-type headers. *)
C26_BetaOnEveryRequest ==
    (client.variant = "Anthropic" /\ client.beta # <<>> /\ caller.issued # NoIssued)
        => LET h == caller.issued.headers
           IN  /\ "anthropic-beta" \in DOMAIN h
               /\ h["anthropic-beta"] = client.beta[1]
               /\ {"x-api-key", "anthropic-version", "content-type"} \subseteq DOMAIN h
               /\ h["x-api-key"] = "config.api_key"
               /\ h["anthropic-version"] = client.version
               /\ h["content-type"] = "application/json"

-----------------------------------------------------------------------------
\* The config most recently handed to the client.
LatestConfig == caller.supplied[Len(caller.supplied)]

\* The step is an update_config on a constructed client.
UpdatesConfig == client # NoClient /\ Len(caller'.supplied) = Len(caller.supplied) + 1

(* C27: update_config replaces only the config: the step leaves the provider
   variant, version, beta, verbose and metadata, tools and safety_settings as
   they were and stores the config supplied; and every request issued is the
   one built from the client's other fields and the config supplied last. *)
C27_UpdateConfigReplacesOnlyConfig ==
    /\ [][UpdatesConfig
            => client' = [client EXCEPT !.config = caller'.supplied[Len(caller'.supplied)]]]_vars
    /\ [][caller'.issued # caller.issued
            => /\ client' = client
               /\ caller'.issued
                    = IssuedRequest([client EXCEPT !.config = LatestConfig],
                                    caller'.issued.call)]_vars

\* After two update_config calls on an AnthropicClient with beta, verbose and
\* metadata set, a request built from the third config has been issued.
C27_Witness ==
    /\ client.variant = "Anthropic"
    /\ client.beta = <<OtherBeta>> /\ client.verbose /\ client.metadata # <<>>
    /\ Len(caller.supplied) = 3
    /\ caller.supplied[1] # caller.supplied[3] /\ caller.supplied[2] # caller.supplied[3]
    /\ caller.issued # NoIssued
    /\ caller.issued.body = AnthropicClientBody([client EXCEPT !.config = LatestConfig])
    /\ client.config = LatestConfig

====
